---- MODULE Spec2Model ----
(***************************************************************************)
(* Status-derivation and aggregation engine of the Config Operations Hub   *)
(* dashboards (CRM, ARC, Integration, Regression).                         *)
(*                                                                         *)
(* Time is counted in ticks; TicksPerDay ticks make one calendar day, and  *)
(* a date is the number of its day.  A go-live date is a date at midnight. *)
(* Text cells that the code lower-cases, strips or searches are sequences  *)
(* of one-character strings; cells that the code only compares for         *)
(* equality are plain strings.                                             *)
(***************************************************************************)
EXTENDS Integers, Sequences, FiniteSets, TLC

VARIABLES
    now,    \* wall clock (in ticks) at which the data was loaded
    dash,   \* the dashboard whose processor is live ("crm", "arc", "integration",
            \* "regression"), "none" before any load, "failed" when the build raised
    src,    \* the frame the data source returned: a sequence of rows of cells
    df,     \* the processor's stored dataset (self.df): a sequence of records
    out,    \* the result of the last query made on the processor
    session,    \* st.session_state: a mapping from its keys to their values
    admin_list  \* the list 'admins' stored in ADMIN_LIST_FILE

vars == <<now, dash, src, df, out, session, admin_list>>

----------------------------------------------------------------------------
(* Bounds of the model *)

\* go-live dates range over the days -DaySpan .. DaySpan + 1
DaySpan == 1
\* number of clock ticks in one day (tick 0 of a day is midnight)
TicksPerDay == 2
\* largest number of rows of a multi-row dataset
MaxRows == 2

----------------------------------------------------------------------------
(* Missing values *)

\* pd.NaT: what pd.to_datetime(errors='coerce') gives for an unparseable date
NaT == -100000
\* float NaN in the 'Days to Go Live' column (NaT - today).dt.days
NaNDays == -200000
\* float NaN in a text cell that is only compared (an empty cell of a frame
\* built in memory)
NaN == "<NaN>"
\* pd.NA: what the Excel loaders put in place of a blank text cell
NA == "<NA>"
\* Python None, as returned by the classifiers
None == "<None>"
\* NaN in a text cell held as a character sequence
NaNText == <<"<NaN>">>
\* None in a derived column whose values are character sequences
NoneText == <<"<None>">>

\* pd.isna / pd.notna on a compared text cell or a derived status
isna(v) == v \in {NaN, NA, None}
notna(v) == ~isna(v)

----------------------------------------------------------------------------
(* Python truth values.  v == 'text' is pd.NA when v is pd.NA, and the     *)
(* truth test of pd.NA ("if", "and", "or", "in") raises TypeError.         *)

True == "True"
False == "False"
TypeError == "<TypeError>"
ValueError == "<ValueError>"

PyBool(b) == IF b THEN True ELSE False

\* v == text
PyEq(v, text) == IF v = NA THEN NA ELSE PyBool(v = text)

\* bool(x), as taken by if / and / or
Truth(x) == IF x \in {NA, TypeError} THEN TypeError ELSE x

\* a and b, a or b: b is evaluated only when a does not decide
PyAnd(a, b) == IF Truth(a) = TypeError THEN TypeError ELSE IF a = False THEN False ELSE b
PyOr(a, b) == IF Truth(a) = TypeError THEN TypeError ELSE IF a = True THEN True ELSE b

\* v in [texts]: each element is compared with == and the result truth-tested
PyIn(v, texts) == IF v = NA THEN TypeError ELSE PyBool(v \in texts)

\* pd.isna(v) or v == ''
PyIsBlank(v) == PyOr(PyBool(isna(v)), PyEq(v, ""))

----------------------------------------------------------------------------
(* Character sequences: str.lower(), str.strip(), the `in` substring test *)

LowerChar(c) ==
    CASE c = "A" -> "a" [] c = "B" -> "b" [] c = "C" -> "c" [] c = "D" -> "d"
      [] c = "E" -> "e" [] c = "F" -> "f" [] c = "G" -> "g" [] c = "H" -> "h"
      [] c = "I" -> "i" [] c = "J" -> "j" [] c = "K" -> "k" [] c = "L" -> "l"
      [] c = "M" -> "m" [] c = "N" -> "n" [] c = "O" -> "o" [] c = "P" -> "p"
      [] c = "Q" -> "q" [] c = "R" -> "r" [] c = "S" -> "s" [] c = "T" -> "t"
      [] c = "U" -> "u" [] c = "V" -> "v" [] c = "W" -> "w" [] c = "X" -> "x"
      [] c = "Y" -> "y" [] c = "Z" -> "z" [] OTHER -> c

lower(s) == [i \in 1..Len(s) |-> LowerChar(s[i])]

RECURSIVE lstrip(_)
lstrip(s) == IF s # <<>> /\ Head(s) = " " THEN lstrip(Tail(s)) ELSE s

RECURSIVE rstrip(_)
rstrip(s) == IF s # <<>> /\ s[Len(s)] = " " THEN rstrip(SubSeq(s, 1, Len(s) - 1)) ELSE s

strip(s) == rstrip(lstrip(s))

UpperChar(c) ==
    CASE c = "a" -> "A" [] c = "b" -> "B" [] c = "c" -> "C" [] c = "d" -> "D"
      [] c = "e" -> "E" [] c = "f" -> "F" [] c = "g" -> "G" [] c = "h" -> "H"
      [] c = "i" -> "I" [] c = "j" -> "J" [] c = "k" -> "K" [] c = "l" -> "L"
      [] c = "m" -> "M" [] c = "n" -> "N" [] c = "o" -> "O" [] c = "p" -> "P"
      [] c = "q" -> "Q" [] c = "r" -> "R" [] c = "s" -> "S" [] c = "t" -> "T"
      [] c = "u" -> "U" [] c = "v" -> "V" [] c = "w" -> "W" [] c = "x" -> "X"
      [] c = "y" -> "Y" [] c = "z" -> "Z" [] OTHER -> c

IsAlpha(c) == LowerChar(c) # c \/ UpperChar(c) # c

upper(s) == [i \in 1..Len(s) |-> UpperChar(s[i])]

\* str.title(): a letter that follows a non-letter is upper-cased, every
\* other letter lower-cased
title(s) ==
    [i \in 1..Len(s) |->
        IF i = 1 \/ ~IsAlpha(s[i - 1]) THEN UpperChar(s[i]) ELSE LowerChar(s[i])]

\* str.replace(c, '') for a single character c
RECURSIVE RemoveChar(_, _)
RemoveChar(s, c) ==
    IF s = <<>> THEN <<>>
    ELSE IF Head(s) = c THEN RemoveChar(Tail(s), c)
    ELSE <<Head(s)>> \o RemoveChar(Tail(s), c)

\* pd.NA in a text column; astype(str) writes it as these characters
NAText == <<"<", "N", "A", ">">>
t_nan == <<"n", "a", "n">>
\* astype(str) on one cell of a text column
AsStr(v) == IF v = NaNText THEN t_nan ELSE v

\* Python's `sub in s` on strings
Contains(sub, s) ==
    \E i \in 0..(Len(s) - Len(sub)) : SubSeq(s, i + 1, i + Len(sub)) = sub

----------------------------------------------------------------------------
(* Dates *)

\* datetime.now().date() / pd.Timestamp.now().normalize(): the day of the clock
TodayOf(t) == t \div TicksPerDay

\* days to go live counted from the time of day instead of from midnight
DaysToGoLiveFromNow(goLive, t) ==
    IF goLive = NaT THEN NaNDays ELSE ((goLive * TicksPerDay) - t) \div TicksPerDay

\* (df['Go Live Date'] - today).dt.days with today a date (midnight)
DaysToGoLive(goLive, t) ==
    IF goLive = NaT THEN NaNDays ELSE goLive - TodayOf(t)

\* the Excel loaders subtract datetime.now(), a time of day included, and
\* .dt.days floors the difference to whole days
LoaderDaysToGoLive(goLive, t) ==
    IF goLive = NaT THEN NaNDays ELSE ((goLive * TicksPerDay) - t) \div TicksPerDay

\* comparisons of a possibly-NaN number: every comparison with NaN is False
Lt(x, y) == x # NaNDays /\ x < y
Gt(x, y) == x # NaNDays /\ x > y
Le(x, y) == x # NaNDays /\ x <= y

\* the proleptic Gregorian calendar on day numbers (day 0 is 1970-01-01):
\* the civil date of a day number, as Timestamp.year / .month / .day give it
CivilOf(day) ==
    LET z == day + 719468
        era == z \div 146097
        doe == z - era * 146097
        yoe == (doe - doe \div 1460 + doe \div 36524 - doe \div 146096) \div 365
        doy == doe - (365 * yoe + yoe \div 4 - yoe \div 100)
        mp == (5 * doy + 2) \div 153
        m == IF mp < 10 THEN mp + 3 ELSE mp - 9
    IN  [year |-> yoe + era * 400 + (IF m <= 2 THEN 1 ELSE 0),
         month |-> m,
         day |-> doy - (153 * mp + 2) \div 5 + 1]

\* the day number of a civil date
DayNumber(year, month, dayOfMonth) ==
    LET y == IF month <= 2 THEN year - 1 ELSE year
        era == y \div 400
        yoe == y - era * 400
        doy == (153 * (IF month > 2 THEN month - 3 ELSE month + 9) + 2) \div 5 + dayOfMonth - 1
        doe == yoe * 365 + yoe \div 4 - yoe \div 100 + doy
    IN  era * 146097 + doe - 719468

\* Series.dt.month == m and Series.dt.year == y on one cell: NaT compares False
InMonth(goLive, m, y) ==
    goLive # NaT /\ CivilOf(goLive).month = m /\ CivilOf(goLive).year = y

\* today + pd.DateOffset(months=n): its month and year
DateOffsetMonths(today, n) ==
    LET c == CivilOf(today)
        months == c.year * 12 + (c.month - 1) + n
    IN  [month |-> (months % 12) + 1, year |-> months \div 12]

\* CRM filter_by_date_range(filter_type): the rows of d it returns
crm_filter_by_date_range(d, filter_type, t) ==
    LET today == CivilOf(TodayOf(t)) IN
    IF filter_type = "current_month"
    THEN {i \in 1..Len(d) : InMonth(d[i].goLive, today.month, today.year)}
    ELSE IF filter_type = "next_month"
    THEN LET next_month == (today.month % 12) + 1
             next_month_year == IF today.month < 12 THEN today.year ELSE today.year + 1
         IN  {i \in 1..Len(d) : InMonth(d[i].goLive, next_month, next_month_year)}
    ELSE 1..Len(d)

\* ARC filter_by_date_range(filter_type)
arc_filter_by_date_range(d, filter_type) ==
    IF filter_type = "september" THEN {i \in 1..Len(d) : InMonth(d[i].goLive, 9, 2025)}
    ELSE IF filter_type = "october" THEN {i \in 1..Len(d) : InMonth(d[i].goLive, 10, 2025)}
    ELSE IF filter_type = "november" THEN {i \in 1..Len(d) : InMonth(d[i].goLive, 11, 2025)}
    ELSE 1..Len(d)

\* Integration filter_by_date_range(date_filter)
integration_filter_by_date_range(d, date_filter, t) ==
    LET today == TodayOf(t)
        months(n) == DateOffsetMonths(today, n)
    IN  IF date_filter = "current_month"
        THEN {i \in 1..Len(d) : InMonth(d[i].goLive, CivilOf(today).month, CivilOf(today).year)}
        ELSE IF date_filter = "next_month"
        THEN {i \in 1..Len(d) : InMonth(d[i].goLive, months(1).month, months(1).year)}
        ELSE IF date_filter = "two_months"
        THEN {i \in 1..Len(d) : InMonth(d[i].goLive, months(2).month, months(2).year)}
        ELSE IF date_filter = "ytd"
        THEN {i \in 1..Len(d) : d[i].goLive # NaT /\ CivilOf(d[i].goLive).year = CivilOf(today).year}
        ELSE 1..Len(d)

\* Regression filter_by_date_range(filter_type)
regression_filter_by_date_range(d, filter_type, t) ==
    LET today == TodayOf(t)
        next_date == DateOffsetMonths(today, 1)
    IN  IF filter_type = "current_month"
        THEN {i \in 1..Len(d) : InMonth(d[i].goLive, CivilOf(today).month, CivilOf(today).year)}
        ELSE IF filter_type = "next_month"
        THEN {i \in 1..Len(d) : InMonth(d[i].goLive, next_date.month, next_date.year)}
        ELSE IF filter_type = "ytd"
        THEN {i \in 1..Len(d) : /\ d[i].goLive # NaT
                                 /\ CivilOf(d[i].goLive).year = CivilOf(today).year
                                 /\ d[i].goLive <= today}
        ELSE 1..Len(d)

\* the loaders' 'Days to Go Live Display' column
DaysDisplay(days) ==
    IF days # NaNDays /\ days < 0 THEN "Rolled Out"
    ELSE IF days # NaNDays THEN ToString(days) ELSE ""

\* the rows S of a frame in their order, as a sequence of row numbers
RECURSIVE InOrder(_)
InOrder(S) ==
    IF S = {} THEN <<>>
    ELSE LET first == CHOOSE i \in S : \A j \in S : i <= j
         IN  <<first>> \o InOrder(S \ {first})

\* dt.strftime('%d-%b-%Y'): the day, month and year it writes
FormatDate(goLive) == IF goLive = NaT THEN [missing |-> TRUE] ELSE CivilOf(goLive)

\* get_display_dataframe: lambda x: "Rolled Out" if x < 0 else str(int(x));
\* int() of NaN raises
FormatDays(x) ==
    IF x = NaNDays THEN ValueError
    ELSE IF x < 0 THEN "Rolled Out"
    ELSE ToString(x)

\* CRM get_display_dataframe(sub_tab, df) on the rows S of d
get_display_dataframe(d, sub_tab, S) ==
    LET assignee_col == IF sub_tab = "pre_go_live" THEN "preAssignee"
                        ELSE IF sub_tab = "go_live_testing" THEN "testAssignee"
                        ELSE "configAssignee"
        status_col == IF sub_tab = "pre_go_live" THEN "preStatus"
                      ELSE IF sub_tab = "go_live_testing" THEN "testStatus"
                      ELSE "configStatus"
        order == InOrder(S)
    IN  IF \E i \in S : FormatDays(d[i].days) = ValueError
        THEN [error |-> ValueError]
        ELSE [error |-> None,
              rows |-> [k \in 1..Len(order) |->
                          [goLive |-> FormatDate(d[order[k]].goLive),
                           days |-> FormatDays(d[order[k]].days),
                           region |-> d[order[k]].region,
                           assignee |-> d[order[k]][assignee_col],
                           status |-> d[order[k]][status_col]]]]

\* Integration get_display_dataframe(df) on the rows S of d
integration_get_display_dataframe(d, S) ==
    LET order == InOrder(S)
    IN  IF \E i \in S : FormatDays(d[i].days) = ValueError
        THEN [error |-> ValueError]
        ELSE [error |-> None,
              rows |-> [k \in 1..Len(order) |->
                          [dealerName |-> d[order[k]].dealerName,
                           goLive |-> FormatDate(d[order[k]].goLive),
                           days |-> FormatDays(d[order[k]].days),
                           implType |-> d[order[k]].implType,
                           pem |-> d[order[k]].pem,
                           director |-> d[order[k]].director,
                           assignee |-> d[order[k]].assignee,
                           status |-> d[order[k]].status]]]

\* is_rolled_out with the comparison turned round
IsRolledOutInverted(goLive, t) ==
    IF goLive # NaT THEN goLive > TodayOf(t) ELSE FALSE

\* is_rolled_out of the CRM classifiers
IsRolledOut(goLive, t) ==
    IF goLive # NaT THEN goLive < TodayOf(t) ELSE FALSE

\* the sequences over R of length lo .. hi
SeqsOf(R, lo, hi) == UNION {[1..n -> R] : n \in lo..hi}

----------------------------------------------------------------------------
(* CRM: CRMDataProcessor *)

s_standard == <<"s", "t", "a", "n", "d", "a", "r", "d">>
s_stnadard == <<"s", "t", "n", "a", "d", "a", "r", "d">>
s_copy == <<"c", "o", "p", "y">>
s_implementation == <<"i", "m", "p", "l", "e", "m", "e", "n", "t", "a", "t", "i", "o", "n">>
s_not_configured == <<"n", "o", "t", " ", "c", "o", "n", "f", "i", "g", "u", "r", "e", "d">>

\* the normalisation of row['Configuration Type'] at the head of get_config_status
NormalizeConfigType(config_type) ==
    IF config_type # NaNText
    THEN LET config_type_lower == strip(lower(config_type)) IN
         IF Contains(s_standard, config_type_lower) \/ Contains(s_stnadard, config_type_lower)
         THEN "Standard"
         ELSE IF Contains(s_copy, config_type_lower) THEN "Copy"
         ELSE IF Contains(s_implementation, config_type_lower) THEN "Copy"
         ELSE IF Contains(s_not_configured, config_type_lower) THEN "Not Configured"
         ELSE None
    ELSE None

get_config_status(row, t) ==
    LET config_type == NormalizeConfigType(row.configType)
        is_rolled_out == IsRolledOut(row.goLive, t)
    IN  IF is_rolled_out /\ config_type = None THEN "Data Incorrect"
        ELSE IF config_type = None THEN None
        ELSE config_type

\* the chain of `if` statements of get_pre_go_live_status after the two
\* both-blank returns: conds[i] is the i-th condition, results[i] its return
RECURSIVE IfChain(_, _, _)
IfChain(conds, results, otherwise) ==
    IF conds = <<>> THEN otherwise
    ELSE IF Truth(Head(conds)) = TypeError THEN TypeError
    ELSE IF Head(conds) = True THEN Head(results)
    ELSE IfChain(Tail(conds), Tail(results), otherwise)

get_pre_go_live_status(row, t) ==
    LET is_rolled_out == IsRolledOut(row.goLive, t)
        domain == row.domain
        setup == row.setup
        both_blank == PyAnd(PyIsBlank(domain), PyIsBlank(setup))
    IN  IF is_rolled_out /\ both_blank = True THEN "Data Incorrect"
        ELSE IF both_blank = True THEN None
        ELSE IfChain(
            << PyAnd(PyEq(domain, "Yes"), PyEq(setup, "Yes")),
               PyAnd(PyEq(domain, "No"), PyEq(setup, "No")),
               PyOr(PyAnd(PyEq(domain, "Yes"), PyEq(setup, "No")),
                    PyAnd(PyEq(domain, "No"), PyEq(setup, "Yes"))),
               PyOr(PyAnd(PyEq(domain, "Yes"), PyIsBlank(setup)),
                    PyAnd(PyIsBlank(domain), PyEq(setup, "Yes"))),
               PyOr(PyAnd(PyEq(domain, "No"), PyIsBlank(setup)),
                    PyAnd(PyIsBlank(domain), PyEq(setup, "No"))) >>,
            << "GTG", "Fail", "Partial", "Partial", "Partial" >>,
            None)

\* the tests of a row, in the order the classifier lists them
TestsOf(row) == <<row.sampleADF, row.inbound, row.outbound, row.dataMig>>

PassValues == {"Yes", "No Issues"}
\* the values the blocker checks do not take for a failure
NotAnIssue == {"Yes", "No Issues", "Unable to Test", "Umable to Test", ""}

\* pd.notna(v) and v not in [...]
IsIssue(v) == notna(v) /\ v \notin NotAnIssue

get_go_live_testing_status(row, t) ==
    LET days == DaysToGoLive(row.goLive, t)
        is_rolled_out == IsRolledOut(row.goLive, t)
        tests == TestsOf(row)
        all_blank == \A i \in 1..4 : isna(tests[i]) \/ tests[i] = ""
        has_blocker == IsIssue(row.sampleADF) \/ IsIssue(row.dataMig)
        has_non_blocker == IsIssue(row.inbound) \/ IsIssue(row.outbound)
    IN  IF Gt(days, 0) THEN None
        ELSE IF is_rolled_out /\ all_blank THEN "Data Incorrect"
        ELSE IF all_blank THEN None
        ELSE IF \A i \in 1..4 : (notna(tests[i]) /\ tests[i] # "") => tests[i] \in PassValues
             THEN "GTG"
        ELSE IF has_blocker /\ has_non_blocker THEN "Go Live Blocker & Non-Blocker"
        ELSE IF has_blocker THEN "Go Live Blocker"
        ELSE IF has_non_blocker THEN "Non-Blocker"
        ELSE None

\* load_crm_data_from_excel: the column the loader derives from the clock
load_crm_row(cells, t) ==
    cells @@ [daysDisplay |-> DaysDisplay(LoaderDaysToGoLive(cells.goLive, t))]

\* CRMDataProcessor._prepare_data on one row of the frame the loader returns
CRMPrepareRow(row, t) ==
    row @@ [days |-> DaysToGoLive(row.goLive, t),
            configStatus |-> get_config_status(row, t),
            preStatus |-> get_pre_go_live_status(row, t),
            testStatus |-> get_go_live_testing_status(row, t)]

\* load_data: the loader, then CRMDataProcessor(df); df.apply stops at the
\* first row whose classifier raises, and no processor is built
CRMPrepare(rows, t) ==
    [i \in 1..Len(rows) |-> CRMPrepareRow(load_crm_row(rows[i], t), t)]

CRMRaises(prepared) ==
    \E i \in 1..Len(prepared) : prepared[i].preStatus = TypeError

\* str.contains(pattern, na=False) on the Go Live Testing Status column
StatusContains(status, pattern) ==
    /\ notna(status)
    /\ \/ status = pattern
       \/ pattern = "Go Live Blocker" /\ status = "Go Live Blocker & Non-Blocker"
       \/ pattern = "Non-Blocker" /\ status = "Go Live Blocker & Non-Blocker"

\* get_configuration_kpis with 'Go Lives' counting every row of the slice
get_configuration_kpis_all_rows(d, S) ==
    LET n(v) == Cardinality({i \in S : d[i].configStatus = v})
    IN  [GoLives |-> Cardinality(S),
         Standard |-> n("Standard"),
         Copy |-> n("Copy"),
         NotConfigured |-> n("Not Configured"),
         DataIncorrect |-> n("Data Incorrect")]

get_configuration_kpis(d, S) ==
    LET with_status == {i \in S : notna(d[i].configStatus)}
        n(v) == Cardinality({i \in with_status : d[i].configStatus = v})
    IN  [GoLives |-> Cardinality(with_status),
         Standard |-> n("Standard"),
         Copy |-> n("Copy"),
         NotConfigured |-> n("Not Configured"),
         DataIncorrect |-> n("Data Incorrect")]

get_pre_go_live_kpis(d, S) ==
    LET n(v) == Cardinality({i \in S : d[i].preStatus = v})
    IN  [ChecksCompleted |-> Cardinality({i \in S : notna(d[i].preAssignee) /\ d[i].preAssignee # ""}),
         GTG |-> n("GTG"),
         Partial |-> n("Partial"),
         Fail |-> n("Fail"),
         DataIncorrect |-> n("Data Incorrect")]

\* get_go_live_testing_kpis comparing every status for equality
get_go_live_testing_kpis_exact(d, S) ==
    LET n(v) == Cardinality({i \in S : d[i].testStatus = v})
    IN  [TestsCompleted |-> Cardinality({i \in S : /\ notna(d[i].testAssignee)
                                                   /\ d[i].testAssignee # ""
                                                   /\ Le(d[i].days, 0)}),
         GTG |-> n("GTG"),
         GoLiveBlocker |-> n("Go Live Blocker"),
         NonBlocker |-> n("Non-Blocker"),
         Fail |-> n("Fail"),
         DataIncorrect |-> n("Data Incorrect")]

get_go_live_testing_kpis(d, S) ==
    LET n(v) == Cardinality({i \in S : d[i].testStatus = v})
    IN  [TestsCompleted |-> Cardinality({i \in S : /\ notna(d[i].testAssignee)
                                                   /\ d[i].testAssignee # ""
                                                   /\ Le(d[i].days, 0)}),
         GTG |-> n("GTG"),
         GoLiveBlocker |-> Cardinality({i \in S : StatusContains(d[i].testStatus, "Go Live Blocker")}),
         NonBlocker |-> Cardinality({i \in S : StatusContains(d[i].testStatus, "Non-Blocker")}),
         Fail |-> n("Fail"),
         DataIncorrect |-> n("Data Incorrect")]

\* CRMAnalyticsCalculator._get_score_distribution: the weights, in tenths of
\* a point, and the score of one row (TypeError when a membership test raises)
FullScore == 1000
WeightSampleADF == 400
WeightInbound == 125
WeightOutbound == 125
WeightDataMigration == 350

Weights == <<WeightSampleADF, WeightInbound, WeightOutbound, WeightDataMigration>>

RECURSIVE SumSeq(_)
SumSeq(q) == IF q = <<>> THEN 0 ELSE Head(q) + SumSeq(Tail(q))

\* the membership tests of the scoring loop, one per test in the loop's order
score_passed(row) == [i \in 1..4 |-> PyIn(TestsOf(row)[i], PassValues)]

\* row.get(test) not in ['Yes', 'No Issues'] raises on a pd.NA cell
score_raises(row) == \E i \in 1..4 : score_passed(row)[i] = TypeError

weighted_score(row) ==
    FullScore - SumSeq([i \in 1..4 |-> IF score_passed(row)[i] = True THEN 0 ELSE Weights[i]])

\* the four tiers counted by _get_score_distribution, thresholds in tenths
TierExcellent == 900
TierGood == 750
TierNeedsImprovement == 600

score_tiers(s) ==
    (IF s >= TierExcellent THEN {"excellent"} ELSE {})
    \cup (IF TierGood <= s /\ s < TierExcellent THEN {"good"} ELSE {})
    \cup (IF TierNeedsImprovement <= s /\ s < TierGood THEN {"needs_improvement"} ELSE {})
    \cup (IF s < TierNeedsImprovement THEN {"critical"} ELSE {})

\* get_go_live_testing_analytics: the rows that have a status other than
\* Data Incorrect
valid_rows(d, S) ==
    {i \in S : notna(d[i].testStatus) /\ d[i].testStatus # "Data Incorrect"}

RECURSIVE SumOver(_, _)
SumOver(f, V) ==
    IF V = {} THEN 0
    ELSE LET i == CHOOSE j \in V : TRUE IN f[i] + SumOver(f, V \ {i})

\* _get_score_distribution on the valid rows V of d; the loop stops at the
\* first row whose membership test raises
get_score_distribution(d, V) ==
    LET scores == [i \in V |-> weighted_score(d[i])]
        n(tier) == Cardinality({i \in V : tier \in score_tiers(scores[i])})
    IN  IF \E i \in V : score_raises(d[i])
        THEN [error |-> TypeError]
        ELSE [error |-> None,
              scores |-> scores,
              excellent |-> n("excellent"),
              good |-> n("good"),
              needs_improvement |-> n("needs_improvement"),
              critical |-> n("critical"),
              score_sum |-> SumOver(scores, V),
              score_count |-> Cardinality(V)]

\* a rate computed without the guard: a zero denominator stands for the
\* ZeroDivisionError
RateUnguarded(count, total) == [num |-> count * 100, den |-> total]

\* a rate of the analytics, count / total * 100 guarded by total > 0, kept as
\* the exact fraction num / den
Rate(count, total) ==
    IF total > 0 THEN [num |-> count * 100, den |-> total] ELSE [num |-> 0, den |-> 1]

\* the window of the at-risk stores, in days
AtRiskDays == 7

\* get_pre_go_live_analytics on the slice S of d: the status breakdown and the
\* GTG rate over the rows with a status other than Data Incorrect
get_pre_go_live_analytics(d, S) ==
    LET valid == {i \in S : notna(d[i].preStatus) /\ d[i].preStatus # "Data Incorrect"}
        n(v) == Cardinality({i \in valid : d[i].preStatus = v})
    IN  [total |-> Cardinality(valid),
         gtg |-> n("GTG"),
         partial |-> n("Partial"),
         fail |-> n("Fail"),
         gtg_rate |-> Rate(n("GTG"), Cardinality(valid)),
         at_risk_count |-> Cardinality({i \in valid : /\ Lt(d[i].days, AtRiskDays)
                                                      /\ Le(0, d[i].days)
                                                      /\ d[i].preStatus # "GTG"})]

\* the values of the assignee columns that get_assignee_analytics skips
NotConfigurationAssignees ==
    {"Not Under Ready For Configuration", "Not configured", "Yet to start",
     "Not Configured", "Handled by EM"}
NotTestingAssignees == {"Unable to Test", "Umable to Test"}

\* the non-null values of the column f in the slice S of d (unique(), pd.notna)
UniqueNotNa(d, S, f) == {d[i][f] : i \in S} \ {NaN, NA, None}

\* str.contains('Blocker', na=False) on the Go Live Testing Status column
ContainsBlocker(status) ==
    status \in {"Go Live Blocker", "Non-Blocker", "Go Live Blocker & Non-Blocker"}

\* get_assignee_analytics on the slice S of d: one entry per assignee in each
\* of the three dimensions
get_assignee_analytics(d, S) ==
    [configuration |->
        [a \in UniqueNotNa(d, S, "configAssignee") \ NotConfigurationAssignees |->
            LET rows == {i \in S : d[i].configAssignee = a}
                in_scope == Cardinality({i \in rows : d[i].configStatus \in {"Standard", "Copy"}})
            IN  [total |-> Cardinality(rows),
                 in_scope |-> in_scope,
                 out_of_scope |-> Cardinality({i \in rows : d[i].configStatus = "Not Configured"}),
                 completion_rate |-> Rate(in_scope, Cardinality(rows))]],
     pre_go_live |->
        [a \in UniqueNotNa(d, S, "preAssignee") |->
            LET rows == {i \in S : d[i].preAssignee = a}
                gtg == Cardinality({i \in rows : d[i].preStatus = "GTG"})
            IN  [total |-> Cardinality(rows),
                 gtg |-> gtg,
                 gtg_rate |-> Rate(gtg, Cardinality(rows))]],
     go_live_testing |->
        [a \in UniqueNotNa(d, S, "testAssignee") \ NotTestingAssignees |->
            LET rows == {i \in S : d[i].testAssignee = a}
                valid == {i \in rows : notna(d[i].testStatus) /\ d[i].testStatus # "Data Incorrect"}
                gtg == Cardinality({i \in valid : d[i].testStatus = "GTG"})
            IN  [total |-> Cardinality(valid),
                 gtg |-> gtg,
                 blockers |-> Cardinality({i \in valid : ContainsBlocker(d[i].testStatus)}),
                 gtg_rate |-> Rate(gtg, Cardinality(valid))]]]

\* the non-null values of the Region column in the slice S of d
RegionsNotNa(d, S) == {d[i].region : i \in S} \ {NaNText, NoneText, NAText}

\* CRM _get_regional_breakdown of the status column f on the slice S of d
get_regional_breakdown(d, S, f) ==
    [r \in RegionsNotNa(d, S) |->
        LET rows == {i \in S : d[i].region = r}
        IN  [total |-> Cardinality(rows),
             status_counts |-> [v \in UniqueNotNa(d, rows, f) |->
                                  Cardinality({i \in rows : d[i][f] = v})]]]

\* CRM get_configuration_analytics on the slice S of d; none_found tells
\* whether value_counts(dropna=False).get(None, 0) finds the null entry
get_configuration_analytics(d, S, none_found) ==
    LET n(v) == Cardinality({i \in S : d[i].configStatus = v})
        total == Cardinality(S)
        in_scope == n("Standard") + n("Copy")
        not_started == IF none_found THEN Cardinality({i \in S : isna(d[i].configStatus)}) ELSE 0
        total_excluding_none == total - not_started
    IN  [total |-> total,
         in_scope |-> in_scope,
         out_of_scope |-> n("Not Configured"),
         data_incorrect |-> n("Data Incorrect"),
         not_started |-> not_started,
         completion_rate |-> Rate(in_scope, total_excluding_none),
         standard |-> n("Standard"),
         copy |-> n("Copy"),
         standard_pct |-> Rate(n("Standard"), in_scope),
         copy_pct |-> Rate(n("Copy"), in_scope),
         regional_data |-> get_regional_breakdown(d, S, "configStatus"),
         out_of_scope_by_region |->
            [r \in RegionsNotNa(d, S) |->
                LET rows == {i \in S : d[i].region = r}
                    not_configured == Cardinality({i \in rows : d[i].configStatus = "Not Configured"})
                    total_region == Cardinality({i \in rows : notna(d[i].configStatus)})
                IN  [count |-> not_configured,
                     total |-> total_region,
                     percentage |-> Rate(not_configured, total_region)]]]

\* _get_test_pass_rates on the rows V of d, one entry per test in TestsOf order
get_test_pass_rates(d, V) ==
    [k \in 1..4 |->
        LET total == Cardinality({i \in V : notna(TestsOf(d[i])[k])})
            passed == Cardinality({i \in V : TestsOf(d[i])[k] \in {"No Issues", "Yes"}})
        IN  [passed |-> passed, total |-> total, pass_rate |-> Rate(passed, total)]]

\* get_go_live_testing_analytics on the slice S of d; the exception of the
\* scoring loop leaves the function
get_go_live_testing_analytics(d, S) ==
    LET valid == valid_rows(d, S)
        n(v) == Cardinality({i \in valid : d[i].testStatus = v})
        dist == get_score_distribution(d, valid)
    IN  IF dist.error = TypeError THEN [error |-> TypeError]
        ELSE [error |-> None,
              total |-> Cardinality(valid),
              gtg |-> n("GTG"),
              blockers |-> n("Go Live Blocker") + n("Go Live Blocker & Non-Blocker"),
              non_blockers |-> n("Non-Blocker") + n("Go Live Blocker & Non-Blocker"),
              gtg_rate |-> Rate(n("GTG"), Cardinality(valid)),
              test_pass_rates |-> get_test_pass_rates(d, valid),
              score_distribution |-> dist,
              unable_to_test |-> Cardinality({i \in S : d[i].testStatus = "Data Incorrect"})]

----------------------------------------------------------------------------
t_All == <<"A", "l", "l">>
t_Nan == <<"N", "a", "n">>

\* CRM get_regions on the slice S of d: the members of the list it returns
get_regions(d, S) ==
    LET normalized_regions == {title(strip(AsStr(d[i].region))) : i \in S}
        regions == normalized_regions \ {<<>>, t_Nan}
    IN  IF regions = {} THEN {t_All} ELSE {t_All} \cup regions

\* the comparison key of a region: upper(), then ' ' and '_' removed
RegionKey(r) == RemoveChar(RemoveChar(upper(r), " "), "_")

\* CRM get_region_counts(status_field, status_value, df) on the slice S of
\* the stored frame d
get_region_counts(d, status_field, status_value, S) ==
    LET filtered ==
            IF status_value \in {"Go Live Blocker", "Non-Blocker", "Go Live Blocker & Non-Blocker"}
            THEN {i \in S : StatusContains(d[i][status_field], status_value)}
            ELSE {i \in S : d[i][status_field] = status_value}
    IN  [region \in get_regions(d, 1..Len(d)) |->
            IF region = t_All THEN Cardinality(filtered)
            ELSE Cardinality({i \in filtered : RegionKey(AsStr(d[i].region)) = RegionKey(region)})]

\* CRM filter_by_region(region, df) on the slice S of d
filter_by_region(d, region, S) ==
    IF region = t_All THEN S ELSE {i \in S : d[i].region = region}

----------------------------------------------------------------------------
(* CRM inputs *)

\* the go-live dates of the rows: the days around today, and an unparseable date
Dates == (-DaySpan..DaySpan) \cup {NaT}

cfg_Standard == <<"S", "t", "a", "n", "d", "a", "r", "d">>
cfg_Stnadard == <<"S", "t", "n", "a", "d", "a", "r", "d", " ", "C", "f", "g">>
cfg_COPY == <<" ", "C", "O", "P", "Y", " ">>
cfg_Implementation == <<"I", "m", "p", "l", "e", "m", "e", "n", "t", "a", "t", "i", "o", "n">>
cfg_NotConfigured == <<"N", "o", "t", " ", "C", "o", "n", "f", "i", "g", "u", "r", "e", "d">>
cfg_Custom == <<"C", "u", "s", "t", "o", "m">>
cfg_Spaces == <<" ", " ">>

ConfigTypes == {cfg_Standard, cfg_Stnadard, cfg_COPY, cfg_Implementation,
                cfg_NotConfigured, cfg_Custom, cfg_Spaces, <<>>, NaNText}

\* the configuration types with no text in them
BlankConfigTypes == {cfg_Spaces, <<>>, NaNText}

BlankCells == {NaN, NA, ""}
PreValues == {"Yes", "No", "In Progress"} \cup BlankCells
TestValues == {"Yes", "No Issues", "Issues Found", "Unable to Test", NaN, NA}
Assignees == {"Sarah Johnson", NA}

\* values of the Region column
r_East == <<"E", "a", "s", "t">>
r_West == <<"W", "e", "s", "t">>

\* a row with every input blank, as the Excel loader returns it
BlankCRMRow(g) ==
    [goLive |-> g, configType |-> NaNText, domain |-> NA, setup |-> NA,
     sampleADF |-> NA, inbound |-> NA, outbound |-> NA, dataMig |-> NA,
     configAssignee |-> NA, preAssignee |-> NA, testAssignee |-> NA,
     region |-> r_East]

\* rows that vary the inputs of one dimension over its whole vocabulary
WideCRMRows ==
    {[BlankCRMRow(g) EXCEPT !.configType = c] : g \in Dates, c \in ConfigTypes}
    \cup {[BlankCRMRow(g) EXCEPT !.domain = d, !.setup = u, !.preAssignee = a] :
            g \in Dates, d \in PreValues, u \in PreValues, a \in Assignees}
    \cup {[BlankCRMRow(g) EXCEPT !.sampleADF = x[1], !.inbound = x[2],
                                 !.outbound = x[3], !.dataMig = x[4]] :
            g \in Dates, x \in [1..4 -> TestValues] \cup [1..4 -> BlankCells]}

\* rows of the multi-row datasets: blank rows with and without assignees on
\* each side of today, and rows with each dimension filled in
NarrowCRMRows ==
    {[BlankCRMRow(g) EXCEPT !.configAssignee = a, !.preAssignee = a, !.testAssignee = a,
                            !.region = IF g < 0 THEN r_West ELSE r_East] :
        g \in {-1, 0, 1}, a \in Assignees}
    \cup {[BlankCRMRow(1) EXCEPT !.configType = cfg_Standard, !.domain = "Yes", !.setup = NaN,
                                 !.configAssignee = "Sarah Johnson", !.region = NAText],
          [BlankCRMRow(DaySpan) EXCEPT !.configType = cfg_COPY, !.domain = "Yes", !.setup = "Yes",
                                       !.configAssignee = "Sarah Johnson",
                                       !.preAssignee = "Sarah Johnson"],
          [BlankCRMRow(-1) EXCEPT !.configType = cfg_Custom, !.domain = "No", !.setup = "No",
                                  !.sampleADF = "Yes", !.inbound = "Yes",
                                  !.outbound = "Yes", !.dataMig = "No Issues",
                                  !.configAssignee = "Sarah Johnson",
                                  !.preAssignee = "Sarah Johnson",
                                  !.testAssignee = "Sarah Johnson", !.region = r_West],
          [BlankCRMRow(0) EXCEPT !.configType = cfg_NotConfigured,
                                 !.sampleADF = "Issues Found", !.inbound = "Issues Found",
                                 !.outbound = "Yes", !.dataMig = "Yes",
                                 !.testAssignee = "Sarah Johnson", !.region = r_West]}

\* the largest go-live date of the three-record Pre-Go-Live scenario
ScenarioFarDays == 61

\* the three records of the Pre-Go-Live scenario: go-live yesterday with both
\* checks blank, tomorrow with 'Yes' and a blank, far ahead with both 'Yes';
\* b is the blank of the data source
ScenarioRows(b) ==
    << [BlankCRMRow(-1) EXCEPT !.domain = b, !.setup = b, !.preAssignee = "Sarah Johnson"],
       [BlankCRMRow(1) EXCEPT !.domain = "Yes", !.setup = b, !.preAssignee = "Sarah Johnson"],
       [BlankCRMRow(ScenarioFarDays) EXCEPT !.domain = "Yes", !.setup = "Yes",
                                            !.preAssignee = "Sarah Johnson"] >>

ScenarioFrames == {ScenarioRows(b) : b \in BlankCells}

CRMFrames ==
    SeqsOf(WideCRMRows, 1, 1) \cup SeqsOf(NarrowCRMRows, 1, MaxRows) \cup ScenarioFrames

\* the times of day at which the data is loaded (today is day 0)
LoadTimes == 0..(TicksPerDay - 1)

----------------------------------------------------------------------------
(* ARC: load_arc_data_from_excel *)

t_Completed == <<"C", "o", "m", "p", "l", "e", "t", "e", "d">>
t_WIP == <<"W", "I", "P">>
t_NotConfigured == <<"N", "o", "t", " ", "C", "o", "n", "f", "i", "g", "u", "r", "e", "d">>

BlankWords == {<<"n", "a", "n">>, <<"n", "o", "n", "e">>, <<"n", "/", "a">>, <<"n", "a">>}
CompletedWords == {<<"c", "o", "m", "p", "l", "e", "t", "e", "d">>, <<"c", "o", "m", "p", "l", "e", "t", "e">>, <<"d", "o", "n", "e">>}
WIPWords == {<<"w", "i", "p">>, <<"i", "n", " ", "p", "r", "o", "g", "r", "e", "s", "s">>, <<"w", "o", "r", "k", " ", "i", "n", " ", "p", "r", "o", "g", "r", "e", "s", "s">>}
NotConfiguredWords == {<<"n", "o", "t", " ", "c", "o", "n", "f", "i", "g", "u", "r", "e", "d">>, <<"n", "o", "t", " ", "s", "t", "a", "r", "t", "e", "d">>, <<"p", "e", "n", "d", "i", "n", "g">>}

\* process_module_status comparing the words without lower()
process_module_status_case_sensitive(status, is_rolled_out) ==
    LET status_str == IF status # NaNText THEN strip(status) ELSE <<>>
    IN  IF status_str = <<>> \/ status_str \in BlankWords
        THEN IF is_rolled_out THEN t_NotConfigured ELSE NoneText
        ELSE IF status_str \in CompletedWords THEN t_Completed
        ELSE IF status_str \in WIPWords THEN t_WIP
        ELSE IF status_str \in NotConfiguredWords THEN t_NotConfigured
        ELSE status_str

process_module_status(status, is_rolled_out) ==
    LET status_str == IF status # NaNText THEN strip(status) ELSE <<>>
        status_lower == lower(status_str)
    IN  IF status_str = <<>> \/ status_lower \in BlankWords
        THEN IF is_rolled_out THEN t_NotConfigured ELSE NoneText
        ELSE IF status_lower \in CompletedWords THEN t_Completed
        ELSE IF status_lower \in WIPWords THEN t_WIP
        ELSE IF status_lower \in NotConfiguredWords THEN t_NotConfigured
        ELSE status_str

\* Series.replace(region_mapping): a value equal to a key becomes the key's
\* value, any other value is kept
region_mapping(s) ==
    CASE s = <<"c", "a", "n", "a", "d", "a">> -> <<"C", "a", "n", "a", "d", "a">>
      [] s = <<"c", "a", "n", "d", "a">> -> <<"C", "a", "n", "a", "d", "a">>
      [] s = <<"c", "a", "n">> -> <<"C", "a", "n", "a", "d", "a">>
      [] s = <<"u", "s", "a", " ", "e", "a", "s", "t">> -> <<"U", "S", "A", " ", "E", "a", "s", "t">>
      [] s = <<"e", "a", "s", "t">> -> <<"U", "S", "A", " ", "E", "a", "s", "t">>
      [] s = <<"u", "s", "a", " ", "w", "e", "s", "t">> -> <<"U", "S", "A", " ", "W", "e", "s", "t">>
      [] s = <<"w", "e", "s", "t">> -> <<"U", "S", "A", " ", "W", "e", "s", "t">>
      [] s = <<"u", "s", "a", " ", "w", "e", "s", "t", " ", "a", "n", "d", " ", "c", "e", "n", "t", "r", "a", "l">> -> <<"U", "S", "A", " ", "W", "e", "s", "t", " ", "a", "n", "d", " ", "C", "e", "n", "t", "r", "a", "l">>
      [] s = <<"w", "e", "s", "t", " ", "a", "n", "d", " ", "c", "e", "n", "t", "r", "a", "l">> -> <<"U", "S", "A", " ", "W", "e", "s", "t", " ", "a", "n", "d", " ", "C", "e", "n", "t", "r", "a", "l">>
      [] s = <<"m", "i", "d", " ", "m", "a", "r", "k", "e", "t">> -> <<"M", "i", "d", " ", "M", "a", "r", "k", "e", "t">>
      [] s = <<"m", "i", "d", "m", "a", "r", "k", "e", "t">> -> <<"M", "i", "d", " ", "M", "a", "r", "k", "e", "t">>
      [] s = <<"e", "n", "t", "e", "r", "p", "r", "i", "s", "e">> -> <<"E", "n", "t", "e", "r", "p", "r", "i", "s", "e">>
      [] s = <<"e", "n", "t">> -> <<"E", "n", "t", "e", "r", "p", "r", "i", "s", "e">>
      [] s = <<"u", "n", "i", "t", "e", "d", " ", "k", "i", "n", "g", "d", "o", "m">> -> <<"U", "n", "i", "t", "e", "d", " ", "K", "i", "n", "g", "d", "o", "m">>
      [] s = <<"u", "k">> -> <<"U", "n", "i", "t", "e", "d", " ", "K", "i", "n", "g", "d", "o", "m">>
      [] s = <<"u", "n", "k", "n", "o", "w", "n">> -> <<"U", "n", "k", "n", "o", "w", "n">>
      [] s = <<"n", "a", "n">> -> <<"U", "n", "k", "n", "o", "w", "n">>
      [] s = <<"n", "o", "n", "e">> -> <<"U", "n", "k", "n", "o", "w", "n">>
      [] s = <<>> -> <<"U", "n", "k", "n", "o", "w", "n">>
      [] OTHER -> s

\* Series.replace(impl_type_mapping)
impl_type_mapping(s) ==
    CASE s = <<"n", "e", "w", " ", "p", "o", "i", "n", "t">> -> <<"N", "e", "w", " ", "P", "o", "i", "n", "t">>
      [] s = <<"c", "o", "n", "q", "u", "e", "s", "t">> -> <<"C", "o", "n", "q", "u", "e", "s", "t">>
      [] s = <<"b", "u", "y", "/", "s", "e", "l", "l">> -> <<"B", "u", "y", "/", "S", "e", "l", "l">>
      [] s = <<"b", "u", "y", "-", "s", "e", "l", "l">> -> <<"B", "u", "y", "/", "S", "e", "l", "l">>
      [] s = <<"b", "u", "y", "s", "e", "l", "l">> -> <<"B", "u", "y", "/", "S", "e", "l", "l">>
      [] s = <<"e", "n", "t", "e", "r", "p", "r", "i", "s", "e">> -> <<"E", "n", "t", "e", "r", "p", "r", "i", "s", "e">>
      [] s = <<"m", "i", "g", "r", "a", "t", "i", "o", "n">> -> <<"M", "i", "g", "r", "a", "t", "i", "o", "n">>
      [] s = <<"u", "p", "g", "r", "a", "d", "e">> -> <<"U", "p", "g", "r", "a", "d", "e">>
      [] OTHER -> s

t_Unknown == <<"U", "n", "k", "n", "o", "w", "n">>
t_Unassigned == <<"U", "n", "a", "s", "s", "i", "g", "n", "e", "d">>

\* fillna(v) on one cell
fillna(cell, v) == IF cell = NaNText THEN v ELSE cell

\* the Region clean-up without str.strip()
standardize_region_without_strip(cell) == region_mapping(lower(fillna(cell, t_Unknown)))

\* the Region clean-up: fillna('Unknown'), strip, lower, replace(region_mapping)
standardize_region(cell) == region_mapping(lower(strip(fillna(cell, t_Unknown))))

\* the Type of Implementation clean-up
standardize_impl_type(cell) == impl_type_mapping(lower(strip(fillna(cell, t_Unknown))))

\* the loader on one row: 'Days to Go Live', 'Is Rolled Out', the three modules,
\* then the clean-up of Region, Type of Implementation and Assigned To
load_arc_row(cells, t) ==
    LET days == DaysToGoLive(cells.goLive, t)
        is_rolled_out == Lt(days, 0)
    IN  [goLive |-> cells.goLive,
         days |-> days,
         isRolledOut |-> is_rolled_out,
         parts |-> process_module_status(cells.parts, is_rolled_out),
         service |-> process_module_status(cells.service, is_rolled_out),
         accounting |-> process_module_status(cells.accounting, is_rolled_out),
         region |-> standardize_region(cells.region),
         implType |-> standardize_impl_type(cells.implType),
         assignedTo |-> strip(fillna(cells.assignedTo, t_Unassigned))]

load_arc_data_from_excel(rows, t) == [i \in 1..Len(rows) |-> load_arc_row(rows[i], t)]

\* ARC _get_regional_breakdown on the slice S of d
arc_get_regional_breakdown(d, S) ==
    [r \in {d[i].region : i \in S} |->
        LET rows == {i \in S : d[i].region = r}
            total == Cardinality(rows)
            completed == Cardinality({i \in rows : /\ d[i].service = t_Completed
                                                   /\ d[i].parts = t_Completed
                                                   /\ d[i].accounting = t_Completed})
        IN  [total |-> total,
             completed |-> completed,
             wip |-> Cardinality({i \in rows : \/ d[i].service = t_WIP
                                              \/ d[i].parts = t_WIP
                                              \/ d[i].accounting = t_WIP}),
             not_configured |-> Cardinality({i \in rows : /\ d[i].service = t_NotConfigured
                                                         /\ d[i].parts = t_NotConfigured
                                                         /\ d[i].accounting = t_NotConfigured}),
             completion_rate |-> Rate(completed, total)]]

\* ARC get_configuration_analytics on the slice S of d
arc_get_configuration_analytics(d, S) ==
    LET total == Cardinality(S)
        module(f) ==
            LET n(v) == Cardinality({i \in S : d[i][f] = v})
            IN  [completed |-> n(t_Completed),
                 wip |-> n(t_WIP),
                 not_configured |-> n(t_NotConfigured),
                 completion_rate |-> Rate(n(t_Completed), total)]
    IN  [total |-> total,
         service |-> module("service"),
         parts |-> module("parts"),
         accounting |-> module("accounting"),
         fully_configured |-> Cardinality({i \in S : /\ d[i].service = t_Completed
                                                    /\ d[i].parts = t_Completed
                                                    /\ d[i].accounting = t_Completed}),
         not_configured_all |-> Cardinality({i \in S : /\ d[i].service = t_NotConfigured
                                                      /\ d[i].parts = t_NotConfigured
                                                      /\ d[i].accounting = t_NotConfigured}),
         regional_data |-> arc_get_regional_breakdown(d, S)]

\* ARC get_regions(df): the Region column of the frame it is given, as the
\* call leaves it
arc_regions_normalized(d) ==
    [i \in DOMAIN d |-> [d[i] EXCEPT !.region = title(strip(AsStr(d[i].region)))]]

\* ARC get_regions(df): the members of the list, read from the normalized
\* frame n
arc_get_regions(n) ==
    LET regions == {n[i].region : i \in DOMAIN n} \ {<<>>, t_Nan}
    IN  IF regions = {} THEN {t_All} ELSE {t_All} \cup regions

t_Conquest == <<"C", "o", "n", "q", "u", "e", "s", "t">>
t_BuySell == <<"B", "u", "y", "/", "S", "e", "l", "l">>
t_BuyDashSell == <<"B", "u", "y", "-", "S", "e", "l", "l">>
t_NewPoint == <<"N", "e", "w", " ", "P", "o", "i", "n", "t">>

\* the thresholds of categorize_status, in days
TimelineConquestOnTrack == 60
TimelineConquestCritical == 30
TimelineOtherOnTrack == 15
TimelineOtherCritical == 3

\* get_timeline_analytics: categorize_status on one row
categorize_status(days, impl_type) ==
    IF days = NaNDays THEN "Unknown"
    ELSE IF impl_type = t_Conquest
    THEN IF days > TimelineConquestOnTrack THEN "On Track"
         ELSE IF days > TimelineConquestCritical THEN "Critical"
         ELSE "Escalated"
    ELSE IF impl_type \in {t_BuySell, t_BuyDashSell, t_NewPoint}
    THEN IF days > TimelineOtherOnTrack THEN "On Track"
         ELSE IF days > TimelineOtherCritical THEN "Critical"
         ELSE "Escalated"
    ELSE "Unknown"

\* the sum of the column 'days' over the rows R of the frame n
RECURSIVE SumDays(_, _)
SumDays(n, R) ==
    IF R = {} THEN 0
    ELSE LET i == CHOOSE x \in R : TRUE IN n[i].days + SumDays(n, R \ {i})

\* ARC get_timeline_analytics(filtered_df) on the rows S of d: the metrics,
\* and the frame passed in as the call leaves it, 'Days to Go Live'
\* rewritten and 'Status Category' added
arc_get_timeline_analytics(d, S, t) ==
    LET n == [i \in S |->
                LET days == DaysToGoLive(d[i].goLive, t)
                IN  [d[i] EXCEPT !.days = days]
                        @@ [statusCategory |-> categorize_status(days, d[i].implType)]]
        c(v) == Cardinality({i \in S : n[i].statusCategory = v})
        dated == {i \in S : n[i].days # NaNDays}
    IN  [analytics |->
            [on_track |-> c("On Track"),
             critical |-> c("Critical"),
             escalated |-> c("Escalated"),
             avg_days_to_go_live |-> [sum |-> SumDays(n, dated), count |-> Cardinality(dated)],
             conquest_count |-> Cardinality({i \in S : d[i].implType = t_Conquest}),
             buysell_count |-> Cardinality({i \in S : d[i].implType \in {t_BuySell, t_BuyDashSell}}),
             newpoint_count |-> Cardinality({i \in S : d[i].implType = t_NewPoint})],
         input |-> n]

\* ARC inputs
arc_DONE == <<"D", "O", "N", "E">>
arc_wip == <<" ", "w", "i", "p", " ">>
arc_Pending == <<"P", "e", "n", "d", "i", "n", "g">>
arc_Blocked == <<"B", "l", "o", "c", "k", "e", "d">>
arc_NA == <<"N", "/", "A">>

ModuleCells == {t_Completed, arc_DONE, arc_wip, arc_Pending, arc_Blocked, arc_NA, <<>>, NaNText}
\* the module cells the loader takes for blank
BlankModuleCells == {arc_NA, <<>>, NaNText}

arc_Canada == <<"C", "a", "n", "a", "d", "a">>
arc_CANADA == <<"C", "A", "N", "A", "D", "A">>
arc_canada_padded == <<" ", "c", "a", "n", "a", "d", "a", " ">>
arc_canda == <<"c", "a", "n", "d", "a">>
arc_USAEast == <<"U", "S", "A", " ", "E", "a", "s", "t">>
arc_LATAM == <<"L", "A", "T", "A", "M">>
RegionCells == {arc_Canada, arc_CANADA, arc_canada_padded, arc_canda, arc_USAEast, arc_LATAM, <<>>, NaNText}

arc_Conquest == <<"C", "o", "n", "q", "u", "e", "s", "t">>
arc_BuySell == <<"B", "U", "Y", "-", "S", "E", "L", "L">>
arc_Pilot == <<"P", "i", "l", "o", "t">>
ArcImplCells == {arc_Conquest, arc_BuySell, arc_Pilot, NaNText}

arc_Alice == <<"A", "l", "i", "c", "e">>
ArcAssigneeCells == {arc_Alice, NaNText}

\* one dealership whose modules vary
ARCRows ==
    {[goLive |-> g, parts |-> x[1], service |-> x[2], accounting |-> x[3],
      region |-> arc_Canada, implType |-> arc_Conquest, assignedTo |-> arc_Alice] :
        g \in Dates, x \in [1..3 -> ModuleCells]}

\* dealerships whose region, implementation type, assignee or progress varies
NarrowARCRows ==
    {[goLive |-> 1, parts |-> t_Completed, service |-> t_Completed, accounting |-> t_Completed,
      region |-> r, implType |-> arc_Conquest, assignedTo |-> arc_Alice] : r \in RegionCells}
    \cup {[goLive |-> 0, parts |-> t_Completed, service |-> arc_wip, accounting |-> arc_Pending,
           region |-> arc_USAEast, implType |-> i, assignedTo |-> a] :
             i \in ArcImplCells, a \in ArcAssigneeCells}
    \cup {[goLive |-> g, parts |-> arc_Pending, service |-> arc_Pending, accounting |-> arc_Pending,
           region |-> arc_CANADA, implType |-> arc_BuySell, assignedTo |-> arc_Alice] :
             g \in {-1, NaT}}

ARCFrames == SeqsOf(ARCRows, 1, 1) \cup SeqsOf(NarrowARCRows, 1, MaxRows)

----------------------------------------------------------------------------
(* Integration: IntegrationDataProcessor *)

\* THRESHOLDS
ConquestOnTrack == 60
ConquestCriticalMin == 30
ConquestCriticalMax == 60
ConquestEscalated == 30
BuySellOnTrack == 15
BuySellCriticalMin == 3
BuySellCriticalMax == 15
BuySellEscalated == 3
NewPointOnTrack == 15
NewPointCriticalMin == 3
NewPointCriticalMax == 15
NewPointEscalated == 3

\* THRESHOLDS.get(impl_type), with the Buy/Sell default of _calculate_status
Thresholds(impl_type) ==
    IF impl_type = "Conquest"
    THEN [on_track |-> ConquestOnTrack, critical_min |-> ConquestCriticalMin,
          critical_max |-> ConquestCriticalMax, escalated |-> ConquestEscalated]
    ELSE IF impl_type = "New Point"
    THEN [on_track |-> NewPointOnTrack, critical_min |-> NewPointCriticalMin,
          critical_max |-> NewPointCriticalMax, escalated |-> NewPointEscalated]
    ELSE [on_track |-> BuySellOnTrack, critical_min |-> BuySellCriticalMin,
          critical_max |-> BuySellCriticalMax, escalated |-> BuySellEscalated]

\* REQUIRED_FIELDS, read from a row; the go-live date is blank when it is NaT
RequiredCells(row) ==
    <<row.dealerName, row.dealerID, IF row.goLive = NaT THEN NaN ELSE "date",
      row.implType, row.pem, row.director, row.assignee>>

\* _is_data_incomplete with 'Assignee' left out of the required fields
is_data_incomplete_without_assignee(row) ==
    \E i \in 1..6 : isna(RequiredCells(row)[i]) \/ RequiredCells(row)[i] = ""

is_data_incomplete(row) ==
    \E i \in 1..7 : isna(RequiredCells(row)[i]) \/ RequiredCells(row)[i] = ""

\* the threshold bands with the escalated bound taken inclusively
bucket_days_escalated_inclusive(days, thresholds) ==
    IF Le(days, thresholds.escalated) THEN "Escalated"
    ELSE IF Le(thresholds.critical_min, days) /\ Le(days, thresholds.critical_max) THEN "Critical"
    ELSE IF Gt(days, thresholds.on_track) THEN "On Track"
    ELSE "Critical"

\* the threshold bands of _calculate_status, for days >= 0
bucket_days(days, thresholds) ==
    IF Lt(days, thresholds.escalated) THEN "Escalated"
    ELSE IF Le(thresholds.critical_min, days) /\ Le(days, thresholds.critical_max) THEN "Critical"
    ELSE IF Gt(days, thresholds.on_track) THEN "On Track"
    ELSE "Critical"

\* _calculate_status without the branch for negative days
calculate_status_without_rolled_out(row, days) ==
    IF is_data_incomplete(row) THEN "Data Incomplete"
    ELSE IF notna(row.vendor) /\ row.vendor = "Yes" THEN "GTG"
    ELSE IF isna(row.vendor) \/ row.vendor # "No" THEN "Data Incomplete"
    ELSE IF isna(row.implType) \/ row.implType = "" THEN "Data Incomplete"
    ELSE bucket_days(days, Thresholds(row.implType))

calculate_status(row, days) ==
    IF is_data_incomplete(row) THEN "Data Incomplete"
    ELSE IF notna(row.vendor) /\ row.vendor = "Yes" THEN "GTG"
    ELSE IF isna(row.vendor) \/ row.vendor # "No" THEN "Data Incomplete"
    ELSE IF isna(row.implType) \/ row.implType = "" THEN "Data Incomplete"
    ELSE IF Lt(days, 0) THEN "GTG"
    ELSE bucket_days(days, Thresholds(row.implType))

\* integration excel loader: the column it derives from the clock
load_integration_row(cells, t) ==
    cells @@ [daysDisplay |-> DaysDisplay(LoaderDaysToGoLive(cells.goLive, t))]

\* IntegrationDataProcessor._prepare_data on one row
IntegrationPrepareRow(row, t) ==
    LET days == DaysToGoLive(row.goLive, t) IN
    row @@ [days |-> days,
            status |-> calculate_status(row, days),
            isDataIncomplete |-> is_data_incomplete(row)]

IntegrationPrepare(rows, t) ==
    [i \in 1..Len(rows) |-> IntegrationPrepareRow(load_integration_row(rows[i], t), t)]

\* the window of the 'Upcoming Week' count, in days
UpcomingWeekDays == 7

integration_get_kpis(stored, S, t) ==
    LET d == stored
        n(v) == Cardinality({i \in S : d[i].status = v})
    IN  [TotalGoLives |-> Cardinality(S),
         GTG |-> n("GTG"),
         OnTrack |-> n("On Track"),
         Critical |-> n("Critical"),
         Escalated |-> n("Escalated"),
         UpcomingWeek |-> Cardinality({i \in 1..Len(stored) :
                              /\ stored[i].goLive # NaT
                              /\ stored[i].goLive >= TodayOf(t)
                              /\ stored[i].goLive <= TodayOf(t) + UpcomingWeekDays}),
         DataIncomplete |-> n("Data Incomplete")]

\* Integration get_regions on the slice S of d: the members of the list
integration_get_regions(d, S) ==
    LET regions == {d[i].region : i \in S} \ {NaNText, NoneText, NAText}
    IN  IF regions = {} THEN {t_Unknown} ELSE regions

\* Integration get_region_counts(status, df) on the slice S of d
integration_get_region_counts(d, status, S) ==
    LET status_df == IF status = "Total Go Lives" THEN S
                     ELSE {i \in S : d[i].status = status}
    IN  [region \in integration_get_regions(d, S) |->
            Cardinality({i \in status_df : d[i].region = region})]

\* Integration inputs
\* the largest go-live date of the Integration rows
MaxIntDays == 62
IntDates == (-DaySpan..MaxIntDays) \cup {NaT}
ImplTypes == {"Conquest", "Buy/Sell", "New Point", "Enterprise", "", NA}
VendorCells == {"Yes", "No", "Pending", "", NA}

CompleteIntRow(g) ==
    [dealerName |-> "Lithia Ford", dealerID |-> "D1000", goLive |-> g,
     implType |-> "Conquest", pem |-> "Mike Davis", director |-> "Lisa Anderson",
     assignee |-> "Sarah Johnson", vendor |-> "No", region |-> r_East]

WideIntRows ==
    {[CompleteIntRow(g) EXCEPT !.implType = m, !.vendor = v] :
        g \in IntDates, m \in ImplTypes, v \in VendorCells}
    \cup UNION { {[CompleteIntRow(g) EXCEPT !.vendor = v, !.dealerName = b],
                   [CompleteIntRow(g) EXCEPT !.vendor = v, !.dealerID = b],
                   [CompleteIntRow(g) EXCEPT !.vendor = v, !.pem = b],
                   [CompleteIntRow(g) EXCEPT !.vendor = v, !.director = b],
                   [CompleteIntRow(g) EXCEPT !.vendor = v, !.assignee = b]} :
                 g \in Dates, v \in {"Yes", "No"}, b \in {"", NA} }

NarrowIntRows ==
    {[CompleteIntRow(g) EXCEPT !.vendor = v] : g \in {-1, 0, ConquestCriticalMin}, v \in {"Yes", "No"}}
    \cup {[CompleteIntRow(1) EXCEPT !.pem = NA],
           [CompleteIntRow(-1) EXCEPT !.vendor = NA]}

IntFrames == SeqsOf(WideIntRows, 1, 1) \cup SeqsOf(NarrowIntRows, 1, MaxRows)

----------------------------------------------------------------------------
(* Regression: RegressionDataProcessor *)

t_UnableToComplete == <<"U", "n", "a", "b", "l", "e", " ", "t", "o", " ", "C", "o", "m", "p", "l", "e", "t", "e">>

\* _prepare_data on the Status column: fillna(''), strip, '' becomes None
CleanStatus(status) ==
    LET cleaned == IF status = NaNText THEN <<>> ELSE strip(status)
    IN  IF cleaned = <<>> THEN NoneText ELSE cleaned

\* regression excel loader: it keeps six columns, 'SIM Start Date' not among
\* them, and derives the display column from the clock
load_regression_row(cells, t) ==
    [goLive |-> cells.goLive,
     status |-> cells.status,
     region |-> cells.region,
     daysDisplay |-> DaysDisplay(LoaderDaysToGoLive(cells.goLive, t))]

\* RegressionDataProcessor._prepare_data on one row: a missing 'SIM Start
\* Date' column is added as None, which to_datetime turns into NaT
RegressionPrepareRow(row) ==
    LET withSim == IF "simStart" \in DOMAIN row THEN row ELSE row @@ [simStart |-> NaT]
    IN  [withSim EXCEPT !.status = CleanStatus(withSim.status)]

\* load_data: the Excel sheet, or the mock rows, which carry 'SIM Start Date'
RegressionPrepare(rows, t, use_mock) ==
    [i \in 1..Len(rows) |->
        RegressionPrepareRow(IF use_mock THEN rows[i] ELSE load_regression_row(rows[i], t))]

\* df['Status'].isna() | (df['Status'] == '')
StatusIsBlank(status) == status \in {NoneText, NaNText, <<>>}

regression_get_kpis(stored, S, t) ==
    LET d == stored
        n(v) == Cardinality({i \in S : d[i].status = v})
    IN  [TotalGoLive |-> Cardinality(S),
         Completed |-> n(t_Completed),
         WIP |-> n(t_WIP),
         UnableToComplete |-> n(t_UnableToComplete),
         UpcomingNextWeek |-> Cardinality({i \in 1..Len(stored) :
                                  /\ stored[i].simStart # NaT
                                  /\ stored[i].simStart >= TodayOf(t)
                                  /\ stored[i].simStart <= TodayOf(t) + UpcomingWeekDays}),
         DataIncomplete |-> Cardinality({i \in 1..Len(stored) :
                                /\ stored[i].simStart # NaT
                                /\ stored[i].simStart < TodayOf(t)
                                /\ StatusIsBlank(stored[i].status)})]

\* Regression get_regions(df): the Region column of the frame it is given,
\* as the call leaves it
regression_regions_normalized(d) ==
    [i \in DOMAIN d |-> [d[i] EXCEPT !.region = title(strip(AsStr(d[i].region)))]]

\* Regression get_regions(df): the members of the list, read from the
\* normalized frame n
regression_get_regions(n) ==
    LET regions == {n[i].region : i \in DOMAIN n} \ {<<>>, t_Nan}
    IN  IF regions = {} THEN {t_All} ELSE {t_All} \cup regions

kpi_TotalGoLive == <<"T", "o", "t", "a", "l", " ", "G", "o", " ", "L", "i", "v", "e">>
kpi_UpcomingNextWeek == <<"U", "p", "c", "o", "m", "i", "n", "g", " ", "N", "e", "x", "t", " ", "W", "e", "e", "k">>
kpi_DataIncomplete == <<"D", "a", "t", "a", " ", "I", "n", "c", "o", "m", "p", "l", "e", "t", "e">>

\* Regression get_region_counts(kpi_name, df) on the rows S of the stored
\* frame: the counts, and the frame passed in as the call leaves it
regression_get_region_counts(stored, kpi_name, S, t) ==
    LET n == regression_regions_normalized([i \in S |-> stored[i]])
        count(region) ==
            IF kpi_name = kpi_TotalGoLive
            THEN Cardinality({i \in S : n[i].region = region})
            ELSE IF kpi_name = kpi_UpcomingNextWeek
            THEN Cardinality({i \in 1..Len(stored) :
                    /\ stored[i].region = region
                    /\ stored[i].simStart # NaT
                    /\ stored[i].simStart >= TodayOf(t)
                    /\ stored[i].simStart <= TodayOf(t) + UpcomingWeekDays})
            ELSE IF kpi_name = kpi_DataIncomplete
            THEN Cardinality({i \in 1..Len(stored) :
                    /\ stored[i].region = region
                    /\ stored[i].simStart # NaT
                    /\ stored[i].simStart < TodayOf(t)
                    /\ StatusIsBlank(stored[i].status)})
            ELSE Cardinality({i \in S : n[i].region = region /\ n[i].status = kpi_name})
    IN  [counts |-> [region \in regression_get_regions(n) |-> count(region)],
         input |-> n]

\* Regression inputs
reg_Spaces == <<" ", " ">>
RegStatusCells == {t_Completed, arc_wip, t_UnableToComplete, reg_Spaces, <<>>, NaNText}

WideRegRows ==
    {[goLive |-> g, simStart |-> m, status |-> x, region |-> r_East] :
        g \in Dates, m \in Dates, x \in RegStatusCells}

NarrowRegRows ==
    {[goLive |-> g, simStart |-> m, status |-> x, region |-> r_East] :
        g \in {-1, 1}, m \in {-1, 1}, x \in {t_Completed, NaNText}}

RegFrames == SeqsOf(WideRegRows, 1, 1) \cup SeqsOf(NarrowRegRows, 1, MaxRows)

----------------------------------------------------------------------------
(* The state machine *)

NoOut == [op |-> "none"]

Init ==
    /\ now = 0
    /\ dash = "none"
    /\ src = <<>>
    /\ df = <<>>
    /\ out = NoOut
    /\ session = <<>>
    /\ admin_list = <<>>

\* crm_dashboard/app.py load_data: load_crm_data(), then CRMDataProcessor(df);
\* the processor is built once and cached
LoadCRM ==
    /\ dash = "none"
    /\ \E t \in LoadTimes, rows \in CRMFrames :
        LET built == CRMPrepare(rows, t) IN
        /\ now' = t
        /\ src' = rows
        /\ IF CRMRaises(built)
           THEN /\ dash' = "failed"
                /\ df' = <<>>
                /\ out' = [op |-> "load", error |-> TypeError]
           ELSE /\ dash' = "crm"
                /\ df' = built
                /\ out' = NoOut
    /\ UNCHANGED <<session, admin_list>>

\* the slices of the stored dataset a caller passes to a query
Slices == SUBSET (1..Len(df))

GetConfigurationKpis ==
    /\ dash = "crm"
    /\ \E S \in Slices :
        out' = [op |-> "get_configuration_kpis", slice |-> S, kpis |-> get_configuration_kpis(df, S)]
    /\ UNCHANGED <<now, dash, src, df>>
    /\ UNCHANGED <<session, admin_list>>

GetPreGoLiveKpis ==
    /\ dash = "crm"
    /\ \E S \in Slices :
        out' = [op |-> "get_pre_go_live_kpis", slice |-> S, kpis |-> get_pre_go_live_kpis(df, S)]
    /\ UNCHANGED <<now, dash, src, df>>
    /\ UNCHANGED <<session, admin_list>>

GetGoLiveTestingKpis ==
    /\ dash = "crm"
    /\ \E S \in Slices :
        out' = [op |-> "get_go_live_testing_kpis", slice |-> S, kpis |-> get_go_live_testing_kpis(df, S)]
    /\ UNCHANGED <<now, dash, src, df>>
    /\ UNCHANGED <<session, admin_list>>

GetPreGoLiveAnalytics ==
    /\ dash = "crm"
    /\ \E S \in Slices :
        out' = [op |-> "get_pre_go_live_analytics", slice |-> S,
                analytics |-> get_pre_go_live_analytics(df, S)]
    /\ UNCHANGED <<now, dash, src, df>>
    /\ UNCHANGED <<session, admin_list>>

GetConfigurationAnalytics ==
    /\ dash = "crm"
    /\ \E S \in Slices, none_found \in BOOLEAN :
        out' = [op |-> "get_configuration_analytics", slice |-> S,
                analytics |-> get_configuration_analytics(df, S, none_found)]
    /\ UNCHANGED <<now, dash, src, df>>
    /\ UNCHANGED <<session, admin_list>>

\* the status columns and the values the region cards are drawn for
RegionCountQueries ==
    {<<"configStatus", "Standard">>, <<"preStatus", "GTG">>, <<"testStatus", "Go Live Blocker">>}

GetRegionCounts ==
    /\ dash = "crm"
    /\ \E S \in Slices, query \in RegionCountQueries :
        out' = [op |-> "get_region_counts", slice |-> S, query |-> query,
                counts |-> get_region_counts(df, query[1], query[2], S)]
    /\ UNCHANGED <<now, dash, src, df>>
    /\ UNCHANGED <<session, admin_list>>

GetAssigneeAnalytics ==
    /\ dash = "crm"
    /\ \E S \in Slices :
        out' = [op |-> "get_assignee_analytics", slice |-> S,
                analytics |-> get_assignee_analytics(df, S)]
    /\ UNCHANGED <<now, dash, src, df>>
    /\ UNCHANGED <<session, admin_list>>

\* get_go_live_testing_analytics: the score distribution of the valid rows
GetScoreDistribution ==
    /\ dash = "crm"
    /\ \E S \in Slices :
        out' = [op |-> "get_score_distribution", slice |-> S,
                dist |-> get_score_distribution(df, valid_rows(df, S)),
                analytics |-> get_go_live_testing_analytics(df, S)]
    /\ UNCHANGED <<now, dash, src, df>>
    /\ UNCHANGED <<session, admin_list>>

\* arc_dashboard: load_arc_data_from_excel(), then ARCDataProcessor(df)
LoadARC ==
    /\ dash = "none"
    /\ \E t \in LoadTimes, rows \in ARCFrames :
        /\ now' = t
        /\ src' = rows
        /\ dash' = "arc"
        /\ df' = load_arc_data_from_excel(rows, t)
        /\ out' = NoOut
    /\ UNCHANGED <<session, admin_list>>

ARCGetConfigurationAnalytics ==
    /\ dash = "arc"
    /\ \E S \in Slices :
        out' = [op |-> "arc_get_configuration_analytics", slice |-> S,
                analytics |-> arc_get_configuration_analytics(df, S)]
    /\ UNCHANGED <<now, dash, src, df>>
    /\ UNCHANGED <<session, admin_list>>

\* integration_dashboard: the loader, then IntegrationDataProcessor(df)
LoadIntegration ==
    /\ dash = "none"
    /\ \E t \in LoadTimes, rows \in IntFrames :
        /\ now' = t
        /\ src' = rows
        /\ dash' = "integration"
        /\ df' = IntegrationPrepare(rows, t)
        /\ out' = NoOut
    /\ UNCHANGED <<session, admin_list>>

GetIntegrationKpis ==
    /\ dash = "integration"
    /\ \E S \in Slices :
        out' = [op |-> "integration_get_kpis", slice |-> S,
                kpis |-> integration_get_kpis(df, S, now)]
    /\ UNCHANGED <<now, dash, src, df>>
    /\ UNCHANGED <<session, admin_list>>

\* regression_dashboard: the loader, then RegressionDataProcessor(df)
LoadRegression ==
    /\ dash = "none"
    /\ \E t \in LoadTimes, rows \in RegFrames, use_mock \in BOOLEAN :
        /\ now' = t
        /\ src' = rows
        /\ dash' = "regression"
        /\ df' = RegressionPrepare(rows, t, use_mock)
        /\ out' = NoOut
    /\ UNCHANGED <<session, admin_list>>

GetRegressionKpis ==
    /\ dash = "regression"
    /\ \E S \in Slices :
        out' = [op |-> "regression_get_kpis", slice |-> S,
                kpis |-> regression_get_kpis(df, S, now)]
    /\ UNCHANGED <<now, dash, src, df>>
    /\ UNCHANGED <<session, admin_list>>

Next ==
    \/ LoadCRM
    \/ LoadARC
    \/ ARCGetConfigurationAnalytics
    \/ LoadIntegration
    \/ LoadRegression
    \/ GetIntegrationKpis
    \/ GetRegressionKpis
    \/ GetConfigurationKpis
    \/ GetPreGoLiveKpis
    \/ GetGoLiveTestingKpis
    \/ GetScoreDistribution
    \/ GetPreGoLiveAnalytics
    \/ GetAssigneeAnalytics
    \/ GetConfigurationAnalytics

Spec == Init /\ [][Next]_vars

----------------------------------------------------------------------------
(* The region cards: datasets whose Region column varies *)

r_west_lower == <<"w", "e", "s", "t">>
\* the Excel loader strips the cells; their case is the worksheet's
CRMRegionCells == {r_East, r_West, r_west_lower, NAText}
IntRegionCells == {r_East, r_West, NAText}
RegRegionCells == {r_East, r_west_lower, NAText}
ARCRegionCells == {arc_CANADA, arc_USAEast, arc_LATAM}

\* the days the view is opened on, and the go-live dates of its records:
\* the months around them, the same month a year later, and a missing date
ViewTodays == {DayNumber(2025, 11, 15), DayNumber(2025, 12, 15)}
ViewDates ==
    {DayNumber(2025, 11, 14), DayNumber(2025, 12, 15), DayNumber(2026, 1, 10),
     DayNumber(2026, 12, 5), NaT}
ViewLoadTimes == {today * TicksPerDay : today \in ViewTodays}

ViewCRMRows ==
    {[BlankCRMRow(g) EXCEPT !.configType = IF g = NaT THEN cfg_NotConfigured ELSE cfg_Standard,
                            !.domain = "Yes", !.setup = "Yes",
                            !.sampleADF = "Yes", !.inbound = "Yes", !.outbound = "Yes",
                            !.dataMig = "Yes", !.region = r] :
        g \in ViewDates, r \in CRMRegionCells}
ViewCRMFrames == SeqsOf(ViewCRMRows, 1, MaxRows)

ViewARCRows ==
    {[goLive |-> g, parts |-> t_Completed, service |-> arc_wip, accounting |-> arc_Pending,
      region |-> r, implType |-> arc_Conquest, assignedTo |-> arc_Alice] :
        g \in ViewDates, r \in ARCRegionCells}
ViewARCFrames == SeqsOf(ViewARCRows, 1, MaxRows)

ViewIntRows ==
    {[CompleteIntRow(g) EXCEPT !.region = r] : g \in ViewDates, r \in IntRegionCells}
ViewIntFrames == SeqsOf(ViewIntRows, 1, MaxRows)

ViewRegRows ==
    {[goLive |-> g, simStart |-> g, region |-> r,
      status |-> IF r = r_west_lower THEN NaNText ELSE t_Completed] :
        g \in ViewDates, r \in RegRegionCells}
ViewRegFrames == SeqsOf(ViewRegRows, 1, MaxRows)

ViewLoadCRM ==
    /\ dash = "none"
    /\ \E t \in ViewLoadTimes, rows \in ViewCRMFrames :
        LET built == CRMPrepare(rows, t) IN
        /\ now' = t
        /\ src' = rows
        /\ IF CRMRaises(built)
           THEN /\ dash' = "failed"
                /\ df' = <<>>
                /\ out' = [op |-> "load", error |-> TypeError]
           ELSE /\ dash' = "crm"
                /\ df' = built
                /\ out' = NoOut
    /\ UNCHANGED <<session, admin_list>>

ViewLoadIntegration ==
    /\ dash = "none"
    /\ \E t \in ViewLoadTimes, rows \in ViewIntFrames :
        /\ now' = t
        /\ src' = rows
        /\ dash' = "integration"
        /\ df' = IntegrationPrepare(rows, t)
        /\ out' = NoOut
    /\ UNCHANGED <<session, admin_list>>

ViewLoadRegression ==
    /\ dash = "none"
    /\ \E t \in ViewLoadTimes, rows \in ViewRegFrames, use_mock \in BOOLEAN :
        /\ now' = t
        /\ src' = rows
        /\ dash' = "regression"
        /\ df' = RegressionPrepare(rows, t, use_mock)
        /\ out' = NoOut
    /\ UNCHANGED <<session, admin_list>>

ViewLoadARC ==
    /\ dash = "none"
    /\ \E t \in ViewLoadTimes, rows \in ViewARCFrames :
        /\ now' = t
        /\ src' = rows
        /\ dash' = "arc"
        /\ df' = load_arc_data_from_excel(rows, t)
        /\ out' = NoOut
    /\ UNCHANGED <<session, admin_list>>

\* the filter types of the month selector
FilterTypes == {"current_month", "next_month", "ytd"}

CRMFilterByDateRange ==
    /\ dash = "crm"
    /\ \E filter_type \in FilterTypes :
        out' = [op |-> "filter_by_date_range", filter_type |-> filter_type,
                rows |-> crm_filter_by_date_range(df, filter_type, now)]
    /\ UNCHANGED <<now, dash, src, df>>
    /\ UNCHANGED <<session, admin_list>>

ARCFilterByDateRange ==
    /\ dash = "arc"
    /\ \E filter_type \in FilterTypes \cup {"november"} :
        out' = [op |-> "filter_by_date_range", filter_type |-> filter_type,
                rows |-> arc_filter_by_date_range(df, filter_type)]
    /\ UNCHANGED <<now, dash, src, df>>
    /\ UNCHANGED <<session, admin_list>>

IntegrationFilterByDateRange ==
    /\ dash = "integration"
    /\ \E date_filter \in FilterTypes \cup {"two_months"} :
        out' = [op |-> "filter_by_date_range", filter_type |-> date_filter,
                rows |-> integration_filter_by_date_range(df, date_filter, now)]
    /\ UNCHANGED <<now, dash, src, df>>
    /\ UNCHANGED <<session, admin_list>>

RegressionFilterByDateRange ==
    /\ dash = "regression"
    /\ \E filter_type \in FilterTypes :
        out' = [op |-> "filter_by_date_range", filter_type |-> filter_type,
                rows |-> regression_filter_by_date_range(df, filter_type, now)]
    /\ UNCHANGED <<now, dash, src, df>>
    /\ UNCHANGED <<session, admin_list>>

\* get_regions() reads and rewrites the stored dataset, get_regions(df) the
\* frame it is given
ARCGetRegions ==
    /\ dash = "arc"
    /\ \E S \in Slices, stored \in BOOLEAN :
        LET n == arc_regions_normalized(IF stored THEN df ELSE [i \in S |-> df[i]]) IN
        /\ out' = [op |-> "arc_get_regions", slice |-> DOMAIN n,
                   regions |-> arc_get_regions(n), input |-> n]
        /\ df' = IF stored THEN n ELSE df
    /\ UNCHANGED <<now, dash, src>>
    /\ UNCHANGED <<session, admin_list>>

ARCGetTimelineAnalytics ==
    /\ dash = "arc"
    /\ \E S \in Slices :
        LET r == arc_get_timeline_analytics(df, S, now) IN
        out' = [op |-> "arc_get_timeline_analytics", slice |-> S,
                analytics |-> r.analytics, input |-> r.input]
    /\ UNCHANGED <<now, dash, src, df>>
    /\ UNCHANGED <<session, admin_list>>

RegressionGetRegions ==
    /\ dash = "regression"
    /\ \E S \in Slices, stored \in BOOLEAN :
        LET n == regression_regions_normalized(IF stored THEN df ELSE [i \in S |-> df[i]]) IN
        /\ out' = [op |-> "regression_get_regions", slice |-> DOMAIN n,
                   regions |-> regression_get_regions(n), input |-> n]
        /\ df' = IF stored THEN n ELSE df
    /\ UNCHANGED <<now, dash, src>>
    /\ UNCHANGED <<session, admin_list>>

SubTabs == {"configuration", "pre_go_live", "go_live_testing"}

GetDisplayDataframe ==
    /\ dash = "crm"
    /\ \E S \in Slices, sub_tab \in SubTabs :
        out' = [op |-> "get_display_dataframe", slice |-> S, sub_tab |-> sub_tab,
                display |-> get_display_dataframe(df, sub_tab, S)]
    /\ UNCHANGED <<now, dash, src, df>>
    /\ UNCHANGED <<session, admin_list>>

IntegrationGetDisplayDataframe ==
    /\ dash = "integration"
    /\ \E S \in Slices :
        out' = [op |-> "integration_get_display_dataframe", slice |-> S,
                display |-> integration_get_display_dataframe(df, S)]
    /\ UNCHANGED <<now, dash, src, df>>
    /\ UNCHANGED <<session, admin_list>>

\* the KPI cards of the Configuration tab that open get_region_counts
ConfigurationKpis == {"Standard", "Not Configured"}

\* render_configuration_tab with a KPI and a region selected: the region
\* cards of the KPI on the date slice, then the table of the selected card
RenderConfigurationTab ==
    /\ dash = "crm"
    /\ \E S \in Slices, kpi \in ConfigurationKpis :
        LET region_counts == get_region_counts(df, "configStatus", kpi, S) IN
        \E region \in DOMAIN region_counts :
            LET region_filtered_df ==
                    {i \in filter_by_region(df, region, S) : df[i].configStatus = kpi}
            IN  out' = [op |-> "render_configuration_tab", slice |-> S, kpi |-> kpi,
                        counts |-> region_counts, region |-> region,
                        table |-> region_filtered_df,
                        display |-> get_display_dataframe(df, "configuration",
                                                          region_filtered_df)]
    /\ UNCHANGED <<now, dash, src, df>>
    /\ UNCHANGED <<session, admin_list>>

IntegrationRegionStatuses == {"GTG", "Escalated"}

IntegrationGetRegionCounts ==
    /\ dash = "integration"
    /\ \E S \in Slices, status \in IntegrationRegionStatuses :
        out' = [op |-> "integration_get_region_counts", slice |-> S, status |-> status,
                counts |-> integration_get_region_counts(df, status, S)]
    /\ UNCHANGED <<now, dash, src, df>>
    /\ UNCHANGED <<session, admin_list>>

RegressionRegionKpis == {t_Completed, kpi_DataIncomplete}

RegressionGetRegionCounts ==
    /\ dash = "regression"
    /\ \E S \in Slices, kpi_name \in RegressionRegionKpis :
        LET r == regression_get_region_counts(df, kpi_name, S, now) IN
        out' = [op |-> "regression_get_region_counts", slice |-> S, kpi_name |-> kpi_name,
                counts |-> r.counts, input |-> r.input]
    /\ UNCHANGED <<now, dash, src, df>>
    /\ UNCHANGED <<session, admin_list>>

ViewNext ==
    \/ ViewLoadCRM
    \/ ViewLoadIntegration
    \/ ViewLoadRegression
    \/ ViewLoadARC
    \/ CRMFilterByDateRange
    \/ ARCFilterByDateRange
    \/ IntegrationFilterByDateRange
    \/ RegressionFilterByDateRange
    \/ ARCGetRegions
    \/ ARCGetTimelineAnalytics
    \/ RegressionGetRegions
    \/ GetDisplayDataframe
    \/ IntegrationGetDisplayDataframe
    \/ GetRegionCounts
    \/ RenderConfigurationTab
    \/ IntegrationGetRegionCounts
    \/ RegressionGetRegionCounts

ViewSpec == Init /\ [][ViewNext]_vars

-----------------------------------------------------------------------------
(* Tables with missing columns. A table is the set of its column names; it
   has at least one row, every cell of which is filled, and every column
   that is not named below is present. *)

c_GoLiveDate == "Go Live Date"

\* the error a failed load raises: its type, the field it names and, when
\* the message lists them, the columns of the table
NoError == [type |-> None, field |-> None, listed |-> FALSE, columns |-> {}]

KeyError(field, listed, columns) ==
    [type |-> "KeyError", field |-> field, listed |-> listed,
     columns |-> IF listed THEN columns ELSE {}]

\* df[name] / row[name] on a table that has no such column
Subscript(name) == KeyError(name, FALSE, {})

\* CRMDataProcessor._prepare_data, as far as the columns go
crm_prepare_data(cols) ==
    IF c_GoLiveDate \notin cols
    THEN [error |-> KeyError(c_GoLiveDate, TRUE, cols), columns |-> cols,
          filled |-> {}]
    ELSE LET filled ==
               (IF "Dealership Name" \in cols THEN {}
                ELSE IF {"Dealer Name", "Dealer ID"} \subseteq cols
                     THEN {[column |-> "Dealership Name", value |-> "Dealer Name (Dealer ID)"]}
                     ELSE {[column |-> "Dealership Name", value |-> "Unknown"]})
               \cup (IF "Go Live Status" \in cols THEN {}
                     ELSE {[column |-> "Go Live Status", value |-> None]})
               \cup (IF "Configuration Type" \in cols THEN {}
                     ELSE IF "Configuration Status" \in cols
                          THEN {[column |-> "Configuration Type", value |-> "Configuration Status"]}
                          ELSE {[column |-> "Configuration Type", value |-> None]})
         IN  [error |-> NoError,
              columns |-> cols \cup {f.column : f \in filled}
                          \cup {"Days to Go Live", "Month", "Year", "Month Name",
                                "Is Upcoming Week", "Configuration Status",
                                "Pre Go Live Status", "Go Live Testing Status"},
              filled |-> filled]

\* RegressionDataProcessor._prepare_data, as far as the columns go
regression_column_mapping(c) ==
    IF c = "Go-Live Date" THEN c_GoLiveDate
    ELSE IF c = "Testing Status" THEN "Status"
    ELSE c

regression_required_cols ==
    {[column |-> c_GoLiveDate, value |-> None],
     [column |-> "SIM Start Date", value |-> None],
     [column |-> "Status", value |-> ""],
     [column |-> "Dealership Name", value |-> ""],
     [column |-> "Assignee", value |-> ""],
     [column |-> "Region", value |-> ""]}

regression_prepare_data(cols) ==
    LET renamed == {regression_column_mapping(c) : c \in cols}
        filled == {f \in regression_required_cols : f.column \notin renamed}
    IN  [error |-> NoError,
         columns |-> renamed \cup {f.column : f \in filled}
                     \cup {"Go Live Month", "Go Live Year"},
         filled |-> filled]

\* IntegrationDataProcessor._prepare_data, as far as the columns go
integration_prepare_data(cols) ==
    LET needed == <<c_GoLiveDate, "Dealer Name", "Dealer ID", "Vendor List Updated">>
        missing == {k \in 1..Len(needed) : needed[k] \notin cols}
        first == CHOOSE k \in missing : \A j \in missing : k <= j
    IN  IF missing # {}
        THEN [error |-> Subscript(needed[first]), columns |-> cols, filled |-> {}]
        ELSE [error |-> NoError,
              columns |-> cols \cup {"Go Live Month", "Go Live Year",
                                     "Days to Go Live", "Dealership Name",
                                     "Status", "Is Data Incomplete"},
              filled |-> {}]

\* ARCDataProcessor._prepare_data, as far as the columns go
arc_prepare_data(cols) ==
    IF c_GoLiveDate \notin cols
    THEN [error |-> Subscript(c_GoLiveDate), columns |-> cols, filled |-> {}]
    ELSE [error |-> NoError,
          columns |-> cols \cup {"Days to Go Live", "Month", "Year", "Month Name"},
          filled |-> {}]

\* COLUMN_ALIASES.get(expected_normalized, [expected_normalized])
COLUMN_ALIASES(expected) ==
    IF expected = "go live date" THEN <<"go live date", "go live", "golive date">>
    ELSE IF expected = "region" THEN <<"region", "area", "territory">>
    ELSE <<expected>>

\* find_column(df, expected) on a table with standardized column names
find_column(cols, expected) ==
    LET aliases == COLUMN_ALIASES(expected)
        found == {k \in 1..Len(aliases) : aliases[k] \in cols}
        first == CHOOSE k \in found : \A j \in found : k <= j
    IN  IF found # {}
        THEN [error |-> NoError, column |-> aliases[first]]
        ELSE [error |-> KeyError(expected, TRUE, cols), column |-> None]

CRMColumns ==
    SUBSET {c_GoLiveDate, "Dealership Name", "Dealer Name", "Dealer ID",
            "Go Live Status", "Configuration Type", "Configuration Status"}

\* a worksheet has the go-live date under one heading, and the status under one
RegressionColumns ==
    {cols \in SUBSET {c_GoLiveDate, "Go-Live Date", "SIM Start Date", "Status",
                      "Testing Status", "Dealership Name", "Assignee", "Region"} :
        /\ ~({c_GoLiveDate, "Go-Live Date"} \subseteq cols)
        /\ ~({"Status", "Testing Status"} \subseteq cols)}

IntegrationColumns ==
    SUBSET {c_GoLiveDate, "Go-Live Date", "Dealer Name", "Dealer ID",
            "Vendor List Updated"}

ARCColumns == SUBSET {c_GoLiveDate, "Go Live", "Region", "Assigned To"}

StandardizedColumns ==
    SUBSET {"go live date", "go live", "golive date", "region", "territory"}

ExpectedColumns == {"go live date", "region", "pem"}

CRMPrepareData ==
    /\ dash = "none"
    /\ \E cols \in CRMColumns :
        LET r == crm_prepare_data(cols) IN
        /\ src' = cols
        /\ df' = r.columns
        /\ dash' = IF r.error = NoError THEN "crm" ELSE "failed"
        /\ out' = [op |-> "_prepare_data", domain |-> "crm", error |-> r.error, filled |-> r.filled]
    /\ UNCHANGED now
    /\ UNCHANGED <<session, admin_list>>

RegressionPrepareData ==
    /\ dash = "none"
    /\ \E cols \in RegressionColumns :
        LET r == regression_prepare_data(cols) IN
        /\ src' = cols
        /\ df' = r.columns
        /\ dash' = IF r.error = NoError THEN "regression" ELSE "failed"
        /\ out' = [op |-> "_prepare_data", domain |-> "regression", error |-> r.error, filled |-> r.filled]
    /\ UNCHANGED now
    /\ UNCHANGED <<session, admin_list>>

IntegrationPrepareData ==
    /\ dash = "none"
    /\ \E cols \in IntegrationColumns :
        LET r == integration_prepare_data(cols) IN
        /\ src' = cols
        /\ df' = r.columns
        /\ dash' = IF r.error = NoError THEN "integration" ELSE "failed"
        /\ out' = [op |-> "_prepare_data", domain |-> "integration", error |-> r.error, filled |-> r.filled]
    /\ UNCHANGED now
    /\ UNCHANGED <<session, admin_list>>

ARCPrepareData ==
    /\ dash = "none"
    /\ \E cols \in ARCColumns :
        LET r == arc_prepare_data(cols) IN
        /\ src' = cols
        /\ df' = r.columns
        /\ dash' = IF r.error = NoError THEN "arc" ELSE "failed"
        /\ out' = [op |-> "_prepare_data", domain |-> "arc", error |-> r.error, filled |-> r.filled]
    /\ UNCHANGED now
    /\ UNCHANGED <<session, admin_list>>

FindColumn ==
    /\ dash = "none"
    /\ \E cols \in StandardizedColumns, expected \in ExpectedColumns :
        LET r == find_column(cols, expected) IN
        /\ src' = cols
        /\ df' = cols
        /\ dash' = "shared"
        /\ out' = [op |-> "find_column", expected |-> expected,
                   error |-> r.error, column |-> r.column]
    /\ UNCHANGED now
    /\ UNCHANGED <<session, admin_list>>

ColumnNext ==
    \/ CRMPrepareData
    \/ RegressionPrepareData
    \/ IntegrationPrepareData
    \/ ARCPrepareData
    \/ FindColumn

ColumnSpec == Init /\ [][ColumnNext]_vars

-----------------------------------------------------------------------------
(* The drill-down selection kept in st.session_state. The hub renders the
   four dashboards as tabs of one page, so their keys live in one session;
   a dashboard's cards and buttons exist once it has been rendered, that is
   once its keys are initialized, and a card or button can be clicked only
   while the page renders it. *)

\* a key of the session that holds a truthy value
Selected(key) == key \in DOMAIN session /\ session[key] # None

Modules == {"Parts", "Service"}
ARCKpis == {"Total Go Live", "Completed"}
CRMKpis == {"Go Lives", "Standard"}
IntegrationKpis == {"Total Go Lives", "GTG"}
RegressionKpis == {"Total Go Live", "Completed"}
IMPLEMENTATION_TYPES == {"All", "Conquest"}
SessionRegions == {"East"}
DateFilters == {"current_month", "ytd"}

\* arc_dashboard: initialize_session_state
ARCInitializeSessionState ==
    /\ "selected_module" \notin DOMAIN session
    /\ session' = session @@ [selected_module |-> None, selected_kpi |-> None,
                              selected_region |-> None, selected_lob |-> None,
                              date_filter |-> "current_month", data_loaded |-> FALSE]
    /\ UNCHANGED <<now, dash, src, df, out, admin_list>>

\* on_module_click: a different module resets the KPI and the region
on_module_click(state, module_name) ==
    IF state.selected_module # module_name
    THEN [state EXCEPT !.selected_module = module_name,
                       !.selected_kpi = None,
                       !.selected_region = None]
    ELSE state

\* a click handler that keeps the region of the KPI selected before
on_kpi_click_keeps_region(state, kpi_name) ==
    IF state.selected_kpi # kpi_name
    THEN [state EXCEPT !.selected_kpi = kpi_name]
    ELSE state

\* on_kpi_click: a different KPI resets the region
on_kpi_click(state, kpi_name) ==
    IF state.selected_kpi # kpi_name
    THEN [state EXCEPT !.selected_kpi = kpi_name,
                       !.selected_region = None]
    ELSE state

\* render_module_cards_arc: a module card is clicked
OnModuleClick ==
    /\ "selected_module" \in DOMAIN session
    /\ \E module_name \in Modules :
        session' = on_module_click(session, module_name)
    /\ UNCHANGED <<now, dash, src, df, out, admin_list>>

\* render_kpi_cards_arc, rendered when a module is selected
OnKpiClick ==
    /\ "selected_module" \in DOMAIN session
    /\ Selected("selected_module")
    /\ \E kpi_name \in ARCKpis :
        session' = on_kpi_click(session, kpi_name)
    /\ UNCHANGED <<now, dash, src, df, out, admin_list>>

\* render_region_banners, rendered when a module and a KPI are selected
OnRegionClick ==
    /\ "selected_module" \in DOMAIN session
    /\ Selected("selected_module")
    /\ Selected("selected_kpi")
    /\ \E region \in SessionRegions :
        session' = [session EXCEPT !.selected_region = region]
    /\ UNCHANGED <<now, dash, src, df, out, admin_list>>

\* the sidebar's 'Reset Filters' button, shown while a filter is selected
ResetFilters ==
    /\ "selected_module" \in DOMAIN session
    /\ Selected("selected_kpi") \/ Selected("selected_lob") \/ Selected("selected_region")
    /\ session' = [session EXCEPT !.selected_module = None, !.selected_kpi = None,
                                  !.selected_region = None, !.selected_lob = None]
    /\ UNCHANGED <<now, dash, src, df, out, admin_list>>

\* render_data_tab: the month radio
ARCSelectMonth ==
    /\ "selected_module" \in DOMAIN session
    /\ \E date_filter \in DateFilters :
        session' = [session EXCEPT !.date_filter = date_filter]
    /\ UNCHANGED <<now, dash, src, df, out, admin_list>>

\* crm_dashboard: initialize_session_state
CRMInitializeSessionState ==
    /\ "crm_selected_kpi" \notin DOMAIN session
    /\ session' = session @@ [crm_date_filter |-> "current_month",
                              crm_sub_tab |-> "configuration",
                              crm_selected_kpi |-> None,
                              crm_selected_region |-> None]
    /\ UNCHANGED <<now, dash, src, df, out, admin_list>>

CRMRenderDateFilter ==
    /\ "crm_selected_kpi" \in DOMAIN session
    /\ \E selected_key \in DateFilters :
        session' = IF session.crm_date_filter # selected_key
                   THEN [session EXCEPT !.crm_date_filter = selected_key,
                                        !.crm_selected_kpi = None,
                                        !.crm_selected_region = None]
                   ELSE session
    /\ UNCHANGED <<now, dash, src, df, out, admin_list>>

CRMRenderSubTabSelector ==
    /\ "crm_selected_kpi" \in DOMAIN session
    /\ \E selected_key \in SubTabs :
        session' = IF session.crm_sub_tab # selected_key
                   THEN [session EXCEPT !.crm_sub_tab = selected_key,
                                        !.crm_selected_kpi = None,
                                        !.crm_selected_region = None]
                   ELSE session
    /\ UNCHANGED <<now, dash, src, df, out, admin_list>>

\* render_kpi_cards_crm: a KPI card is clicked
CRMKpiClick ==
    /\ "crm_selected_kpi" \in DOMAIN session
    /\ \E kpi_name \in CRMKpis :
        session' = IF session.crm_selected_kpi # kpi_name
                   THEN [session EXCEPT !.crm_selected_kpi = kpi_name,
                                        !.crm_selected_region = None]
                   ELSE session
    /\ UNCHANGED <<now, dash, src, df, out, admin_list>>

\* render_region_cards_crm, rendered when a KPI is selected
CRMRegionClick ==
    /\ "crm_selected_kpi" \in DOMAIN session
    /\ Selected("crm_selected_kpi")
    /\ \E region \in SessionRegions :
        session' = [session EXCEPT !.crm_selected_region = region]
    /\ UNCHANGED <<now, dash, src, df, out, admin_list>>

\* integration_dashboard: initialize_session_state
IntegrationInitializeSessionState ==
    /\ "integration_selected_kpi" \notin DOMAIN session
    /\ session' = session @@ [integration_date_filter |-> "current_month",
                              integration_selected_kpi |-> None,
                              integration_selected_region |-> None,
                              integration_data_processor |-> None]
    /\ UNCHANGED <<now, dash, src, df, out, admin_list>>

\* integration load_data: the processor is built and cached
IntegrationLoadData ==
    /\ "integration_selected_kpi" \in DOMAIN session
    /\ session' = [session EXCEPT !.integration_data_processor = "processor"]
    /\ UNCHANGED <<now, dash, src, df, out, admin_list>>

\* the 'Reload Latest Data' button of the data tab, rendered with a processor
IntegrationReload ==
    /\ Selected("integration_data_processor")
    /\ session' = [session EXCEPT !.integration_data_processor = None,
                                  !.integration_selected_kpi = None,
                                  !.integration_selected_region = None]
    /\ UNCHANGED <<now, dash, src, df, out, admin_list>>

IntegrationRenderDateFilter ==
    /\ "integration_selected_kpi" \in DOMAIN session
    /\ \E selected_key \in DateFilters :
        session' = IF session.integration_date_filter # selected_key
                   THEN [session EXCEPT !.integration_date_filter = selected_key,
                                        !.integration_selected_kpi = None,
                                        !.integration_selected_region = None]
                   ELSE session
    /\ UNCHANGED <<now, dash, src, df, out, admin_list>>

\* integration handle_kpi_click
IntegrationKpiClick ==
    /\ "integration_selected_kpi" \in DOMAIN session
    /\ \E kpi_name \in IntegrationKpis :
        session' = IF session.integration_selected_kpi # kpi_name
                   THEN [session EXCEPT !.integration_selected_kpi = kpi_name,
                                        !.integration_selected_region = None]
                   ELSE session
    /\ UNCHANGED <<now, dash, src, df, out, admin_list>>

\* integration render_region_buttons, rendered when a KPI is selected
IntegrationRegionClick ==
    /\ "integration_selected_kpi" \in DOMAIN session
    /\ Selected("integration_selected_kpi")
    /\ \E region \in SessionRegions :
        session' = [session EXCEPT !.integration_selected_region = region]
    /\ UNCHANGED <<now, dash, src, df, out, admin_list>>

\* regression_dashboard: initialize_session_state
RegressionInitializeSessionState ==
    /\ "regression_selected_kpi" \notin DOMAIN session
    /\ session' = session @@ [regression_selected_kpi |-> None,
                              regression_selected_impl_type |-> "All",
                              regression_selected_region |-> None,
                              regression_date_filter |-> "current_month"]
    /\ UNCHANGED <<now, dash, src, df, out, admin_list>>

\* regression render_kpi_cards: a KPI card is clicked
RegressionKpiClick ==
    /\ "regression_selected_kpi" \in DOMAIN session
    /\ \E kpi_name \in RegressionKpis :
        session' = [session EXCEPT !.regression_selected_kpi = kpi_name,
                                   !.regression_selected_region = None]
    /\ UNCHANGED <<now, dash, src, df, out, admin_list>>

\* render_implementation_type_pills
RegressionImplTypeClick ==
    /\ "regression_selected_kpi" \in DOMAIN session
    /\ \E impl_type \in IMPLEMENTATION_TYPES :
        session' = [session EXCEPT !.regression_selected_impl_type = impl_type,
                                   !.regression_selected_region = None]
    /\ UNCHANGED <<now, dash, src, df, out, admin_list>>

\* regression render_region_buttons, rendered when a KPI is selected
RegressionRegionClick ==
    /\ "regression_selected_kpi" \in DOMAIN session
    /\ Selected("regression_selected_kpi")
    /\ \E region \in SessionRegions :
        session' = [session EXCEPT !.regression_selected_region = region]
    /\ UNCHANGED <<now, dash, src, df, out, admin_list>>

\* the hub's logout: every key of the session is deleted, and the dashboards
\* rendered next initialize their keys again
Logout ==
    /\ session # <<>>
    /\ session' = <<>>
    /\ UNCHANGED <<now, dash, src, df, out, admin_list>>

SessionNext ==
    \/ ARCInitializeSessionState
    \/ OnModuleClick
    \/ OnKpiClick
    \/ OnRegionClick
    \/ ResetFilters
    \/ ARCSelectMonth
    \/ CRMInitializeSessionState
    \/ CRMRenderDateFilter
    \/ CRMRenderSubTabSelector
    \/ CRMKpiClick
    \/ CRMRegionClick
    \/ IntegrationInitializeSessionState
    \/ IntegrationLoadData
    \/ IntegrationReload
    \/ IntegrationRenderDateFilter
    \/ IntegrationKpiClick
    \/ IntegrationRegionClick
    \/ RegressionInitializeSessionState
    \/ RegressionKpiClick
    \/ RegressionImplTypeClick
    \/ RegressionRegionClick
    \/ Logout

SessionSpec == Init /\ [][SessionNext]_vars

-----------------------------------------------------------------------------
(* Email verification codes, kept in st.session_state.verification_codes.
   In this specification now counts minutes. *)

\* minutes a stored code stays valid
CODE_EXPIRY_MINUTES == 10
\* number of incorrect codes after which the code is withdrawn
MaxAttempts == 3
\* last minute of the clock
MaxMinutes == 15
\* minutes between two readings of the clock
MinutesStep == 5
\* largest number of incorrect codes followed after one stored code
MaxWrong == 4

VerificationEmails == {<<"A", "@", "x">>, <<"a", "@", "x">>, <<"b", "@", "x">>}
VerificationCodes == {"111111", "222222"}

\* the dictionary of stored codes; it is created by the first store
verification_codes ==
    IF "verification_codes" \in DOMAIN session THEN session.verification_codes ELSE <<>>

\* del d[key]
Del(d, key) == [k \in DOMAIN d \ {key} |-> d[k]]

\* d[key] = value
Put(d, key, value) == [k \in DOMAIN d \cup {key} |-> IF k = key THEN value ELSE d[k]]

store_verification_code(codes, email, code, t) ==
    Put(codes, lower(email), [code |-> code, expiry |-> t + CODE_EXPIRY_MINUTES, attempts |-> 0])

\* a verification that compares the code before it looks at the attempts
verify_code_compares_first(present, codes, email, entered_code, t) ==
    LET email_lower == lower(email) IN
    IF ~present
    THEN [ok |-> FALSE, message |-> "No verification code found", codes |-> codes]
    ELSE IF email_lower \notin DOMAIN codes
    THEN [ok |-> FALSE, message |-> "No verification code found for this email",
          codes |-> codes]
    ELSE IF t > codes[email_lower].expiry
    THEN [ok |-> FALSE, message |-> "Verification code has expired",
          codes |-> Del(codes, email_lower)]
    ELSE IF entered_code = codes[email_lower].code
    THEN [ok |-> TRUE, message |-> "Email verified successfully!",
          codes |-> Del(codes, email_lower)]
    ELSE IF codes[email_lower].attempts >= MaxAttempts
    THEN [ok |-> FALSE, message |-> "Too many failed attempts",
          codes |-> Del(codes, email_lower)]
    ELSE [ok |-> FALSE, message |-> "Invalid code",
          codes |-> [codes EXCEPT ![email_lower].attempts = @ + 1]]

\* verify_code: the result, its message and the dictionary it leaves;
\* present tells whether the session holds the dictionary
verify_code(present, codes, email, entered_code, t) ==
    LET email_lower == lower(email) IN
    IF ~present
    THEN [ok |-> FALSE, message |-> "No verification code found", codes |-> codes]
    ELSE IF email_lower \notin DOMAIN codes
    THEN [ok |-> FALSE, message |-> "No verification code found for this email",
          codes |-> codes]
    ELSE IF t > codes[email_lower].expiry
    THEN [ok |-> FALSE, message |-> "Verification code has expired",
          codes |-> Del(codes, email_lower)]
    ELSE IF codes[email_lower].attempts >= MaxAttempts
    THEN [ok |-> FALSE, message |-> "Too many failed attempts",
          codes |-> Del(codes, email_lower)]
    ELSE IF entered_code = codes[email_lower].code
    THEN [ok |-> TRUE, message |-> "Email verified successfully!",
          codes |-> Del(codes, email_lower)]
    ELSE [ok |-> FALSE, message |-> "Invalid code",
          codes |-> [codes EXCEPT ![email_lower].attempts = @ + 1]]

(* Beside the last call and its result, out keeps a record of the calls made
   for each address since its code was stored: the code, the minute it was
   stored, the number of incorrect codes entered, the number of successes,
   and whether a call has consumed the code. *)
CallRecord == IF "record" \in DOMAIN out THEN out.record ELSE <<>>

StoreVerificationCode ==
    /\ \E email \in VerificationEmails, code \in VerificationCodes :
        /\ session' = Put(session, "verification_codes",
                          store_verification_code(verification_codes, email, code, now))
        /\ out' = [op |-> "store_verification_code", email |-> email, code |-> code,
                   record |-> Put(CallRecord, lower(email),
                                  [code |-> code, stored_at |-> now,
                                   wrong |-> 0, successes |-> 0, consumed |-> FALSE])]
    /\ UNCHANGED <<now, dash, src, df, admin_list>>

VerifyCode ==
    /\ \E email \in VerificationEmails, entered_code \in VerificationCodes :
        LET key == lower(email)
            present == "verification_codes" \in DOMAIN session
            r == verify_code(present, verification_codes, email, entered_code, now)
            stored == key \in DOMAIN CallRecord
            before == IF stored THEN CallRecord[key]
                      ELSE [code |-> None, stored_at |-> 0, wrong |-> 0,
                            successes |-> 0, consumed |-> FALSE]
            late == stored /\ now > before.stored_at + CODE_EXPIRY_MINUTES
            locked == stored /\ before.wrong >= MaxAttempts
        IN  /\ entered_code # before.code => before.wrong < MaxWrong
            /\ session' = IF present THEN [session EXCEPT !.verification_codes = r.codes]
                          ELSE session
            /\ out' = [op |-> "verify_code", email |-> email, entered_code |-> entered_code,
                       ok |-> r.ok, message |-> r.message,
                       stored |-> stored, late |-> late, before |-> before,
                       record |-> IF stored
                                  THEN [CallRecord EXCEPT ![key] =
                                         [@ EXCEPT !.wrong = IF entered_code # before.code
                                                             THEN @ + 1 ELSE @,
                                                   !.successes = IF r.ok THEN @ + 1 ELSE @,
                                                   !.consumed = @ \/ r.ok \/ late \/ locked]]
                                  ELSE CallRecord]
    /\ UNCHANGED <<now, dash, src, df, admin_list>>

\* time passes between two calls
MinutesPass ==
    /\ now + MinutesStep <= MaxMinutes
    /\ now' = now + MinutesStep
    /\ UNCHANGED <<dash, src, df, out, session, admin_list>>

VerificationNext ==
    \/ StoreVerificationCode
    \/ VerifyCode
    \/ MinutesPass

VerificationSpec == Init /\ [][VerificationNext]_vars

-----------------------------------------------------------------------------
(* The regular-admin list of ADMIN_LIST_FILE, managed by the super admins *)

gdnaresh == <<"g", "d", "n", "a", "r", "e", "s", "h">>
REQUIRED_DOMAIN == <<"@", "t", "e", "k", "i", "o", "n", ".", "c", "o", "m">>
SUPER_ADMIN_EMAILS == <<gdnaresh \o REQUIRED_DOMAIN>>

\* the elements of a list
Elements(list) == {list[i] : i \in DOMAIN list}

\* [a.lower() for a in list], as the membership tests use it
Lowered(list) == {lower(a) : a \in Elements(list)}

\* str.endswith
endswith(s, suffix) ==
    /\ Len(s) >= Len(suffix)
    /\ SubSeq(s, Len(s) - Len(suffix) + 1, Len(s)) = suffix

IsDigit(c) == c \in {"0", "1", "2", "3", "4", "5", "6", "7", "8", "9"}

\* re.match(r'^[a-zA-Z0-9._%+-]+@[a-zA-Z0-9.-]+\.[a-zA-Z]{2,}$', email)
MatchesEmailPattern(email) ==
    \E at \in DOMAIN email, dot \in DOMAIN email :
        /\ 1 < at /\ at + 1 < dot /\ dot + 2 <= Len(email)
        /\ email[at] = "@" /\ email[dot] = "."
        /\ \A i \in 1..(at - 1) :
              IsAlpha(email[i]) \/ IsDigit(email[i]) \/ email[i] \in {".", "_", "%", "+", "-"}
        /\ \A i \in (at + 1)..(dot - 1) :
              IsAlpha(email[i]) \/ IsDigit(email[i]) \/ email[i] \in {".", "-"}
        /\ \A i \in (dot + 1)..Len(email) : IsAlpha(email[i])

validate_email(email) ==
    IF email = <<>>
    THEN [is_valid |-> FALSE, message |-> "Email cannot be empty"]
    ELSE IF ~MatchesEmailPattern(email)
    THEN [is_valid |-> FALSE, message |-> "Invalid email format"]
    ELSE IF ~endswith(lower(email), lower(REQUIRED_DOMAIN))
    THEN [is_valid |-> FALSE, message |-> "Only @tekion.com emails are allowed"]
    ELSE [is_valid |-> TRUE, message |-> ""]

\* an add_admin that does not look for the address in the list
add_admin_unchecked(admins, email) ==
    LET email_lower == lower(email) IN
    IF ~validate_email(email).is_valid
    THEN [success |-> FALSE, message |-> validate_email(email).message, admins |-> admins]
    ELSE IF email_lower \in Lowered(SUPER_ADMIN_EMAILS)
    THEN [success |-> FALSE, message |-> "This email is already a Super Admin",
          admins |-> admins]
    ELSE [success |-> TRUE, message |-> "Successfully added",
          admins |-> Append(admins, email_lower)]

\* add_admin: the result, its message and the list the file holds afterwards
add_admin(admins, email) ==
    LET email_lower == lower(email) IN
    IF ~validate_email(email).is_valid
    THEN [success |-> FALSE, message |-> validate_email(email).message, admins |-> admins]
    ELSE IF email_lower \in Lowered(SUPER_ADMIN_EMAILS)
    THEN [success |-> FALSE, message |-> "This email is already a Super Admin",
          admins |-> admins]
    ELSE IF email_lower \in Lowered(admins)
    THEN [success |-> FALSE, message |-> "This email is already an Admin",
          admins |-> admins]
    ELSE [success |-> TRUE, message |-> "Successfully added",
          admins |-> Append(admins, email_lower)]

remove_admin(admins, email) ==
    LET email_lower == lower(email) IN
    IF email_lower \in Lowered(SUPER_ADMIN_EMAILS)
    THEN [success |-> FALSE, message |-> "Cannot remove Super Admins", admins |-> admins]
    ELSE IF email_lower \notin Lowered(admins)
    THEN [success |-> FALSE, message |-> "This email is not in the admin list",
          admins |-> admins]
    ELSE [success |-> TRUE, message |-> "Successfully removed",
          admins |-> SelectSeq(admins, LAMBDA a : lower(a) # email_lower)]

gmail == <<"@", "g", "m", "a", "i", "l", ".", "c", "o", "m">>

\* the addresses typed into the admin panel
AdminEmails ==
    { <<"a">> \o REQUIRED_DOMAIN, <<"A">> \o REQUIRED_DOMAIN,
      <<"b">> \o REQUIRED_DOMAIN, <<"B">> \o upper(REQUIRED_DOMAIN),
      <<"c">> \o REQUIRED_DOMAIN,
      gdnaresh \o REQUIRED_DOMAIN, upper(gdnaresh) \o REQUIRED_DOMAIN,
      <<"a">> \o gmail, <<"a", " ", "b">> \o REQUIRED_DOMAIN, REQUIRED_DOMAIN, <<>> }

\* the stored list before the call is kept beside the result
AddAdmin ==
    /\ \E email \in AdminEmails :
        LET r == add_admin(admin_list, email) IN
        /\ admin_list' = r.admins
        /\ out' = [op |-> "add_admin", email |-> email, success |-> r.success,
                   message |-> r.message, previous |-> admin_list]
    /\ UNCHANGED <<now, dash, src, df, session>>

RemoveAdmin ==
    /\ \E email \in AdminEmails :
        LET r == remove_admin(admin_list, email) IN
        /\ admin_list' = r.admins
        /\ out' = [op |-> "remove_admin", email |-> email, success |-> r.success,
                   message |-> r.message, previous |-> admin_list]
    /\ UNCHANGED <<now, dash, src, df, session>>

AdminNext ==
    \/ AddAdmin
    \/ RemoveAdmin

AdminSpec == Init /\ [][AdminNext]_vars

----------------------------------------------------------------------------
(* Properties *)

\* the go-live date g is strictly before the day of the load
BeforeToday(g) == g # NaT /\ g < TodayOf(now)
\* the go-live date g is the day of the load or later
TodayOrLater(g) == g # NaT /\ g >= TodayOf(now)

ConfigBlank(row) == row.configType \in BlankConfigTypes
PreBlank(row) == row.domain \in BlankCells /\ row.setup \in BlankCells
TestsBlank(row) == \A k \in 1..4 : TestsOf(row)[k] \in BlankCells

\* C1: wherever the rolled-out predicate is computed (the CRM classifiers, the
\* ARC loader's 'Is Rolled Out', the Excel loaders' 'Rolled Out' display
\* marker), a record is rolled out if and only if its go-live date is
\* strictly before today's date, whatever the time of day of the load.
C1_RolledOutIffBeforeToday ==
    \A i \in 1..Len(df) :
        /\ (dash \in {"crm", "integration", "regression"} /\ "daysDisplay" \in DOMAIN df[i]) =>
              ((df[i].daysDisplay = "Rolled Out") <=> BeforeToday(df[i].goLive))
        /\ dash = "arc" => (df[i].isRolledOut <=> BeforeToday(df[i].goLive))
        /\ (dash = "crm" /\ ConfigBlank(df[i])) =>
              ((df[i].configStatus = "Data Incorrect") <=> BeforeToday(df[i].goLive))

\* C2: in each CRM dimension, a record whose inputs of the dimension are all
\* blank and whose go-live date is strictly before today has the status
\* 'Data Incorrect' in that dimension.
C2_BlankRolledOutIsDataIncorrect ==
    dash = "crm" =>
        \A i \in 1..Len(df) :
            BeforeToday(df[i].goLive) =>
                /\ ConfigBlank(df[i]) => df[i].configStatus = "Data Incorrect"
                /\ PreBlank(df[i]) => df[i].preStatus = "Data Incorrect"
                /\ TestsBlank(df[i]) => df[i].testStatus = "Data Incorrect"

C2_Witness ==
    /\ dash = "crm"
    /\ \E i \in 1..Len(df) :
        /\ df[i].goLive = TodayOf(now) - 1
        /\ ConfigBlank(df[i]) /\ PreBlank(df[i]) /\ TestsBlank(df[i])
        /\ df[i].configStatus = "Data Incorrect"
        /\ df[i].preStatus = "Data Incorrect"
        /\ df[i].testStatus = "Data Incorrect"

\* the per-status counts of a KPI mapping, its total left out
WithoutTotal(kpis, total) == [k \in (DOMAIN kpis) \ {total} |-> kpis[k]]

HasAssignee(a) == notna(a) /\ a # ""

\* C3 as stated: in each CRM dimension, a record whose inputs are all blank
\* and whose go-live date is today or later has a null status and is counted
\* in none of the dimension's KPI counts, the totals 'Go Lives', 'Checks
\* Completed' and 'Tests Completed' included.
C3_BlankFutureInNoKpiCount ==
    dash = "crm" =>
        \A i \in 1..Len(df) :
            TodayOrLater(df[i].goLive) =>
                /\ ConfigBlank(df[i]) =>
                    /\ df[i].configStatus = None
                    /\ (out.op = "get_configuration_kpis" /\ i \in out.slice) =>
                          out.kpis = get_configuration_kpis(df, out.slice \ {i})
                /\ PreBlank(df[i]) =>
                    /\ df[i].preStatus = None
                    /\ (out.op = "get_pre_go_live_kpis" /\ i \in out.slice) =>
                          out.kpis = get_pre_go_live_kpis(df, out.slice \ {i})
                /\ TestsBlank(df[i]) =>
                    /\ df[i].testStatus = None
                    /\ (out.op = "get_go_live_testing_kpis" /\ i \in out.slice) =>
                          out.kpis = get_go_live_testing_kpis(df, out.slice \ {i})

\* C3 as amended: such a record has a null status and is counted in none of
\* the per-status counts nor in 'Go Lives'; 'Checks Completed' counts it
\* exactly when its Pre Go Live Assignee is not blank, and 'Tests Completed'
\* exactly when its Go Live Testing Assignee is not blank and its go-live
\* date is today.
C3_BlankFutureInNoStatusCount ==
    dash = "crm" =>
        \A i \in 1..Len(df) :
            TodayOrLater(df[i].goLive) =>
                /\ ConfigBlank(df[i]) =>
                    /\ df[i].configStatus = None
                    /\ (out.op = "get_configuration_kpis" /\ i \in out.slice) =>
                          out.kpis = get_configuration_kpis(df, out.slice \ {i})
                /\ PreBlank(df[i]) =>
                    /\ df[i].preStatus = None
                    /\ (out.op = "get_pre_go_live_kpis" /\ i \in out.slice) =>
                        LET rest == get_pre_go_live_kpis(df, out.slice \ {i}) IN
                        /\ WithoutTotal(out.kpis, "ChecksCompleted") = WithoutTotal(rest, "ChecksCompleted")
                        /\ out.kpis.ChecksCompleted =
                              rest.ChecksCompleted + (IF HasAssignee(df[i].preAssignee) THEN 1 ELSE 0)
                /\ TestsBlank(df[i]) =>
                    /\ df[i].testStatus = None
                    /\ (out.op = "get_go_live_testing_kpis" /\ i \in out.slice) =>
                        LET rest == get_go_live_testing_kpis(df, out.slice \ {i}) IN
                        /\ WithoutTotal(out.kpis, "TestsCompleted") = WithoutTotal(rest, "TestsCompleted")
                        /\ out.kpis.TestsCompleted =
                              rest.TestsCompleted
                              + (IF HasAssignee(df[i].testAssignee) /\ df[i].goLive = TodayOf(now)
                                 THEN 1 ELSE 0)

C3_Witness ==
    /\ dash = "crm"
    /\ out.op = "get_pre_go_live_kpis"
    /\ \E i \in out.slice :
        /\ df[i].goLive > TodayOf(now)
        /\ PreBlank(df[i])
        /\ HasAssignee(df[i].preAssignee)
        /\ df[i].preStatus = None
        /\ out.kpis.ChecksCompleted = Cardinality(out.slice)
        /\ out.kpis.GTG + out.kpis.Partial + out.kpis.Fail + out.kpis.DataIncorrect
              = Cardinality(out.slice) - 1
        /\ Cardinality(out.slice) > 1

IntRequiredNames == {"dealerName", "dealerID", "implType", "pem", "director", "assignee"}

\* a required field of the Integration row is blank
IntRequiredBlank(row) ==
    row.goLive = NaT \/ \E f \in IntRequiredNames : row[f] \in BlankCells

ARCModules == {"parts", "service", "accounting"}

\* C4 as stated: in every domain a record is classified or counted as 'Data
\* Incorrect' / 'Data Incomplete' only if its go-live date is strictly before
\* today and all inputs of the dimension are blank.
C4_DataIncorrectOnlyBlankRolledOut ==
    \A i \in 1..Len(df) :
        /\ dash = "crm" =>
            /\ df[i].configStatus = "Data Incorrect" =>
                  (BeforeToday(df[i].goLive) /\ ConfigBlank(df[i]))
            /\ df[i].preStatus = "Data Incorrect" =>
                  (BeforeToday(df[i].goLive) /\ PreBlank(df[i]))
            /\ df[i].testStatus = "Data Incorrect" =>
                  (BeforeToday(df[i].goLive) /\ TestsBlank(df[i]))
        /\ dash = "integration" =>
              (df[i].status = "Data Incomplete" => BeforeToday(df[i].goLive))
        /\ (dash = "regression" /\ out.op = "regression_get_kpis") =>
              (out.kpis.DataIncomplete
                  <= Cardinality({j \in 1..Len(df) :
                        BeforeToday(df[j].goLive) /\ StatusIsBlank(df[j].status)}))

\* C4 as amended: a CRM status is 'Data Incorrect' exactly when the go-live
\* date is strictly before today and the dimension's inputs are all blank,
\* a Configuration Type that is none of the recognised words counting as
\* blank; the ARC loader gives a blank module of a rolled-out record 'Not
\* Configured'; an Integration record is 'Data Incomplete' exactly when a
\* required field is blank or Vendor List Updated is neither 'Yes' nor 'No',
\* whatever its go-live date; Regression counts as 'Data Incomplete' the
\* stored records with a blank status whose SIM Start Date is before today,
\* whatever their go-live date.
C4_DataIncorrectRules ==
    \A i \in 1..Len(df) :
        /\ dash = "crm" =>
            /\ df[i].configStatus = "Data Incorrect" <=>
                  /\ BeforeToday(df[i].goLive)
                  /\ df[i].configType \notin {cfg_Standard, cfg_Stnadard, cfg_COPY,
                                               cfg_Implementation, cfg_NotConfigured}
            /\ df[i].preStatus = "Data Incorrect" <=>
                  (BeforeToday(df[i].goLive) /\ PreBlank(df[i]))
            /\ df[i].testStatus = "Data Incorrect" <=>
                  (BeforeToday(df[i].goLive) /\ TestsBlank(df[i]))
        /\ dash = "arc" =>
              \A m \in ARCModules :
                  (src[i][m] \in BlankModuleCells /\ BeforeToday(src[i].goLive)) =>
                      df[i][m] = t_NotConfigured
        /\ dash = "integration" =>
              (df[i].status = "Data Incomplete" <=>
                  (IntRequiredBlank(src[i]) \/ src[i].vendor \notin {"Yes", "No"}))
        /\ (dash = "regression" /\ out.op = "regression_get_kpis") =>
              (out.kpis.DataIncomplete
                  = Cardinality({j \in 1..Len(df) :
                        /\ BeforeToday(df[j].simStart)
                        /\ src[j].status \in {<<>>, reg_Spaces, NaNText}}))

C4_Witness ==
    /\ dash = "integration"
    /\ \E i \in 1..Len(df) :
        /\ df[i].goLive > TodayOf(now)
        /\ ~IntRequiredBlank(src[i])
        /\ src[i].vendor = "Pending"
        /\ df[i].status = "Data Incomplete"

t_DataIncorrect == <<"D", "a", "t", "a", " ", "I", "n", "c", "o", "r", "r", "e", "c", "t">>

\* the module cells that an entry of the synonym table maps to a status
ARCSynonym(cell) ==
    IF cell \in {t_Completed, arc_DONE} THEN t_Completed
    ELSE IF cell = arc_wip THEN t_WIP
    ELSE IF cell = arc_Pending THEN t_NotConfigured
    ELSE NoneText

PreGoLiveTable(domain, setup) ==
    IF domain = "Yes" /\ setup = "Yes" THEN "GTG"
    ELSE IF domain = "No" /\ setup = "No" THEN "Fail"
    ELSE "Partial"

\* the pairs C6 speaks of: drawn from Yes, No, blank; not both blank; and not
\* a 'No' beside a blank, which the claim leaves open
PreGoLivePair(domain, setup) ==
    /\ domain \in {"Yes", "No"} \cup BlankCells
    /\ setup \in {"Yes", "No"} \cup BlankCells
    /\ "Yes" \in {domain, setup} \/ (domain = "No" /\ setup = "No")

\* C6: for every pair (Domain Updated, Set Up Check) drawn from Yes, No and
\* blank that is not both blank, the Pre-Go-Live status is GTG when both are
\* 'Yes', Fail when both are 'No', and Partial when exactly one is 'Yes' and
\* the other is 'No' or blank, whichever of the two fields holds which value.
C6_PreGoLiveTable ==
    dash \in {"crm", "failed"} =>
        \A i \in 1..Len(src) :
            PreGoLivePair(src[i].domain, src[i].setup) =>
                get_pre_go_live_status(src[i], now) = PreGoLiveTable(src[i].domain, src[i].setup)

TestFails(v) == v \notin {"Yes", "No Issues"}

\* the Go-Live-Testing table of C7 on a row
GoLiveTestingTable(row) ==
    LET blocking == TestFails(row.sampleADF) \/ TestFails(row.dataMig)
        non_blocking == TestFails(row.inbound) \/ TestFails(row.outbound)
    IN  IF ~blocking /\ ~non_blocking THEN "GTG"
        ELSE IF blocking /\ non_blocking THEN "Go Live Blocker & Non-Blocker"
        ELSE IF blocking THEN "Go Live Blocker"
        ELSE "Non-Blocker"

\* C7: a record that is due (go-live today or earlier) with at least one
\* non-blank test, a test failing when its value is neither 'Yes' nor 'No
\* Issues', is GTG iff all four tests pass, 'Go Live Blocker & Non-Blocker'
\* iff a blocking and a non-blocking test fail, 'Go Live Blocker' iff only
\* blocking tests fail, and 'Non-Blocker' iff only non-blocking tests fail.
C7_GoLiveTestingTable ==
    dash = "crm" =>
        \A i \in 1..Len(df) :
            (df[i].goLive # NaT /\ df[i].goLive <= TodayOf(now) /\ ~TestsBlank(df[i])) =>
                df[i].testStatus = GoLiveTestingTable(df[i])

\* the tier C8 gives a score in tenths of a point
ScoreTier(s) ==
    IF s >= 900 THEN "excellent"
    ELSE IF s >= 750 THEN "good"
    ELSE IF s >= 600 THEN "needs_improvement"
    ELSE "critical"

\* the score of C8 in tenths of a point: 100 minus the weights of the failing checks
ScoreOf(row) ==
    1000 - (IF TestFails(row.sampleADF) THEN 400 ELSE 0)
         - (IF TestFails(row.inbound) THEN 125 ELSE 0)
         - (IF TestFails(row.outbound) THEN 125 ELSE 0)
         - (IF TestFails(row.dataMig) THEN 350 ELSE 0)

\* C8: the weighted score of every scored record is 100 minus the weights
\* (40, 12.5, 12.5, 35) of the checks whose value is neither 'Yes' nor 'No
\* Issues'; it lies in 0..100 and falls in exactly one tier (Excellent from
\* 90, Good from 75, NeedsImprovement from 60, Critical below); four passes
\* give 100 / Excellent and Sample ADF failing alone gives 60 /
\* NeedsImprovement.
C8_WeightedScore ==
    out.op = "get_score_distribution" =>
        /\ out.dist.error = None
        /\ \A i \in DOMAIN out.dist.scores :
            LET s == out.dist.scores[i] IN
            /\ s = ScoreOf(df[i])
            /\ s \in 0..1000
            /\ score_tiers(s) = {ScoreTier(s)}
        /\ out.dist.excellent + out.dist.good + out.dist.needs_improvement
              + out.dist.critical = out.dist.score_count

\* the threshold table of C9
Band(impl_type, days) ==
    IF impl_type = "Conquest"
    THEN (IF days > 60 THEN "On Track" ELSE IF days >= 30 THEN "Critical" ELSE "Escalated")
    ELSE (IF days > 15 THEN "On Track" ELSE IF days >= 3 THEN "Critical" ELSE "Escalated")

\* C9: an Integration record with all required fields present, Vendor List
\* Updated = 'No' and days to go live >= 0 is, for Conquest, On Track iff
\* days > 60, Critical iff 30 <= days <= 60, Escalated iff days < 30, and for
\* Buy/Sell and New Point On Track iff days > 15, Critical iff 3 <= days <=
\* 15, Escalated iff days < 3.
C9_ThresholdBands ==
    dash = "integration" =>
        \A i \in 1..Len(df) :
            ( /\ ~IntRequiredBlank(src[i])
              /\ src[i].vendor = "No"
              /\ src[i].implType \in {"Conquest", "Buy/Sell", "New Point"}
              /\ src[i].goLive >= TodayOf(now) ) =>
                df[i].status = Band(src[i].implType, src[i].goLive - TodayOf(now))

C9_Witness ==
    /\ dash = "integration"
    /\ \E i \in 1..Len(df) :
        /\ ~IntRequiredBlank(src[i])
        /\ src[i].vendor = "No"
        /\ src[i].implType = "Conquest"
        /\ df[i].days = 60
        /\ df[i].status = "Critical"

NonNull(S, f) == Cardinality({i \in S : notna(df[i][f])})

\* the sum of the per-status counts of each KPI mapping
ConfigStatusSum(k) == k.Standard + k.Copy + k.NotConfigured + k.DataIncorrect
PreStatusSum(k) == k.GTG + k.Partial + k.Fail + k.DataIncorrect
TestStatusSum(k) == k.GTG + k.GoLiveBlocker + k.NonBlocker + k.Fail + k.DataIncorrect
IntStatusSum(k) == k.GTG + k.OnTrack + k.Critical + k.Escalated + k.DataIncomplete

RateIs(r, a, b) == r.num * b = a * 100 * r.den

\* the data loaded is the three-record Pre-Go-Live scenario
IsScenario ==
    /\ dash \in {"crm", "failed"}
    /\ Len(src) = 3
    /\ src[1].goLive = TodayOf(now) - 1 /\ PreBlank(src[1])
    /\ src[2].goLive = TodayOf(now) + 1 /\ src[2].domain = "Yes" /\ src[2].setup \in BlankCells
    /\ src[3].goLive > TodayOf(now) + 1 /\ src[3].domain = "Yes" /\ src[3].setup = "Yes"

\* C12: for the three records (1) go-live yesterday with both inputs blank,
\* (2) go-live tomorrow with Domain Updated 'Yes' and Set Up Check blank, (3)
\* go-live in two months with both 'Yes', the statuses are Data Incorrect,
\* Partial and GTG, the per-status counts are 1, 1 and 1, the rate
\* denominator is 3 and the GTG rate is 1/3.
C12_PreGoLiveScenario ==
    IsScenario =>
        /\ dash = "crm"
        /\ df[1].preStatus = "Data Incorrect"
        /\ df[2].preStatus = "Partial"
        /\ df[3].preStatus = "GTG"
        /\ (out.op = "get_pre_go_live_kpis" /\ out.slice = {1, 2, 3}) =>
              /\ out.kpis.DataIncorrect = 1
              /\ out.kpis.Partial = 1
              /\ out.kpis.GTG = 1
              /\ out.kpis.Fail = 0
        /\ (out.op = "get_pre_go_live_analytics" /\ out.slice = {1, 2, 3}) =>
              /\ out.analytics.total = 3
              /\ RateIs(out.analytics.gtg_rate, 1, 3)

\* the number of records of the slice S that assignee a has in the column f
\* and whose status in the column g is not null
AssigneeNonNull(S, f, a, g) == Cardinality({i \in S : df[i][f] = a /\ notna(df[i][g])})

\* C13: in the per-assignee analytics of each dimension, the 'total' used
\* as the denominator of an assignee's rate counts only that assignee's
\* records whose status in the dimension is not null.
C13_AssigneeTotalsExcludeNull ==
    out.op = "get_assignee_analytics" =>
        /\ \A a \in DOMAIN out.analytics.configuration :
              out.analytics.configuration[a].total
                  <= AssigneeNonNull(out.slice, "configAssignee", a, "configStatus")
        /\ \A a \in DOMAIN out.analytics.pre_go_live :
              out.analytics.pre_go_live[a].total
                  <= AssigneeNonNull(out.slice, "preAssignee", a, "preStatus")
        /\ \A a \in DOMAIN out.analytics.go_live_testing :
              out.analytics.go_live_testing[a].total
                  <= AssigneeNonNull(out.slice, "testAssignee", a, "testStatus")

\* a produced rate with the count and the denominator it was computed from
Produced(rate, count, total) == [rate |-> rate, count |-> count, total |-> total]

\* the rates of the analytics in out, each with its count and denominator
ProducedRates ==
    IF out.op = "get_configuration_analytics" THEN
        LET a == out.analytics
        IN  {Produced(a.completion_rate, a.in_scope, a.total - a.not_started),
             Produced(a.standard_pct, a.standard, a.in_scope),
             Produced(a.copy_pct, a.copy, a.in_scope)}
            \cup {Produced(a.out_of_scope_by_region[r].percentage,
                           a.out_of_scope_by_region[r].count,
                           a.out_of_scope_by_region[r].total) :
                     r \in DOMAIN a.out_of_scope_by_region}
    ELSE IF out.op = "get_pre_go_live_analytics" THEN
        {Produced(out.analytics.gtg_rate, out.analytics.gtg, out.analytics.total)}
    ELSE IF out.op = "get_score_distribution" /\ out.analytics.error = None THEN
        LET a == out.analytics
        IN  {Produced(a.gtg_rate, a.gtg, a.total)}
            \cup {Produced(a.test_pass_rates[k].pass_rate, a.test_pass_rates[k].passed,
                           a.test_pass_rates[k].total) : k \in DOMAIN a.test_pass_rates}
    ELSE IF out.op = "get_assignee_analytics" THEN
        LET a == out.analytics
        IN  {Produced(a.configuration[x].completion_rate, a.configuration[x].in_scope,
                      a.configuration[x].total) : x \in DOMAIN a.configuration}
            \cup {Produced(a.pre_go_live[x].gtg_rate, a.pre_go_live[x].gtg,
                           a.pre_go_live[x].total) : x \in DOMAIN a.pre_go_live}
            \cup {Produced(a.go_live_testing[x].gtg_rate, a.go_live_testing[x].gtg,
                           a.go_live_testing[x].total) : x \in DOMAIN a.go_live_testing}
    ELSE IF out.op = "arc_get_configuration_analytics" THEN
        LET a == out.analytics
        IN  {Produced(a[m].completion_rate, a[m].completed, a.total) : m \in ARCModules}
            \cup {Produced(a.regional_data[r].completion_rate, a.regional_data[r].completed,
                           a.regional_data[r].total) : r \in DOMAIN a.regional_data}
    ELSE {}

\* C14: every rate the analytics calculators produce is count / denominator
\* * 100 when the denominator is positive and 0 when the denominator is 0; no
\* slice, the empty one included, divides by zero, and every rate lies in
\* 0..100 because the count never exceeds the denominator.
C14_RatesGuardedAndBounded ==
    \A x \in ProducedRates :
        /\ x.rate.den > 0
        /\ x.total > 0 => RateIs(x.rate, x.count, x.total)
        /\ x.total = 0 => x.rate.num = 0
        /\ 0 <= x.count /\ x.count <= x.total
        /\ 0 <= x.rate.num /\ x.rate.num <= 100 * x.rate.den

\* a slice of two records has a rate of one half next to a rate whose
\* denominator is 0
C14_Witness ==
    /\ out.op = "get_configuration_analytics"
    /\ \E x \in ProducedRates : x.total = 2 /\ x.count = 1 /\ RateIs(x.rate, 1, 2)
    /\ \E x \in ProducedRates : x.total = 0 /\ x.rate.num = 0

\* the regions of the stored dataset, each under the name the dashboard
\* lists it by
StoredRegions ==
    LET present == {i \in 1..Len(df) : df[i].region \notin {NaNText, NoneText, NAText}}
    IN  IF dash = "integration" THEN {df[i].region : i \in present}
        ELSE {title(strip(df[i].region)) : i \in present}

RegionCountOps ==
    {"get_region_counts", "integration_get_region_counts", "regression_get_region_counts"}

\* C15: in the CRM, Integration and Regression processors the keys of the
\* mapping get_region_counts returns are the regions of the full stored
\* dataset, whatever slice is passed in: a region with no record in the
\* slice is still a key.
C15_RegionKeysFromFullDataset ==
    out.op \in RegionCountOps => \A r \in StoredRegions : r \in DOMAIN out.counts

\* the spellings of Canada, lower-cased and trimmed
CanadaAliases == {<<"c", "a", "n", "a", "d", "a">>, <<"c", "a", "n", "d", "a">>, <<"c", "a", "n">>}

\* the Region cell of the source row i is a spelling of Canada
IsCanada(i) ==
    /\ src[i].region # NaNText
    /\ lower(strip(src[i].region)) \in CanadaAliases

\* C16: ARC region canonicalization ignores case and surrounding whitespace
\* and maps the aliases of a region to one canonical name: 'CANADA',
\* ' canada ' and 'canda' become 'Canada' and are counted in one bucket of
\* the regional breakdown, and canonicalizing a canonical name returns it.
C16_RegionCanonicalization ==
    dash = "arc" =>
        /\ \A i \in 1..Len(df) : IsCanada(i) => df[i].region = arc_Canada
        /\ \A i, j \in 1..Len(df) :
              (/\ src[i].region # NaNText
               /\ src[j].region # NaNText
               /\ lower(strip(src[i].region)) = lower(strip(src[j].region)))
                  => df[i].region = df[j].region
        /\ \A i \in 1..Len(df) : standardize_region(df[i].region) = df[i].region
        /\ out.op = "arc_get_configuration_analytics" =>
              \A r \in DOMAIN out.analytics.regional_data :
                  r = arc_Canada =>
                      out.analytics.regional_data[r].total
                          = Cardinality({i \in out.slice : IsCanada(i)})

\* 'CANADA' and ' canada ' were loaded together and counted in one bucket
C16_Witness ==
    /\ dash = "arc"
    /\ Len(src) = 2
    /\ src[1].region = arc_CANADA
    /\ src[2].region = arc_canada_padded
    /\ out.op = "arc_get_configuration_analytics"
    /\ out.slice = {1, 2}
    /\ DOMAIN out.analytics.regional_data = {arc_Canada}
    /\ out.analytics.regional_data[arc_Canada].total = 2

\* the text cell is not blank
NonBlankText(cell) == cell \notin {NaNText, NAText} /\ strip(cell) # <<>>

\* C17: a non-blank enum value that matches no synonym is passed through
\* unchanged into the derived field (CRM configuration type, ARC module
\* status, implementation type, region): it never becomes null, 'Data
\* Incorrect', a default category or a case-altered variant of itself.
C17_UnknownEnumPassedThrough ==
    /\ dash = "crm" =>
          \A i \in 1..Len(df) :
              (NonBlankText(src[i].configType) /\ NormalizeConfigType(src[i].configType) = None)
                  => (notna(df[i].configStatus) /\ df[i].configStatus # "Data Incorrect")
    /\ dash = "arc" =>
          \A i \in 1..Len(df) :
              /\ \A m \in ARCModules :
                    (src[i][m] \notin BlankModuleCells /\ ARCSynonym(src[i][m]) = NoneText)
                        => df[i][m] = strip(src[i][m])
              /\ (/\ NonBlankText(src[i].region)
                  /\ region_mapping(lower(strip(src[i].region))) = lower(strip(src[i].region)))
                    => df[i].region = strip(src[i].region)
              /\ (/\ NonBlankText(src[i].implType)
                  /\ impl_type_mapping(lower(strip(src[i].implType))) = lower(strip(src[i].implType)))
                    => df[i].implType = strip(src[i].implType)

\* the month after the month m of the year y
FollowingMonth(m, y) == IF m = 12 THEN [month |-> 1, year |-> y + 1] ELSE [month |-> m + 1, year |-> y]

\* the stored records whose go-live date lies in the month m of the year y
GoLivesIn(m, y) ==
    {i \in 1..Len(df) : /\ df[i].goLive # NaT
                        /\ CivilOf(df[i].goLive).month = m
                        /\ CivilOf(df[i].goLive).year = y}

\* C18: in every processor filter_by_date_range('current_month') returns
\* exactly the records whose go-live month and year are today's, and
\* 'next_month' exactly those of the following calendar month (January of
\* the next year after December); a record with no go-live date is in
\* neither.
C18_MonthFilters ==
    LET today == CivilOf(TodayOf(now))
        following == FollowingMonth(today.month, today.year)
    IN  /\ (out.op = "filter_by_date_range" /\ out.filter_type = "current_month")
              => out.rows = GoLivesIn(today.month, today.year)
        /\ (out.op = "filter_by_date_range" /\ out.filter_type = "next_month")
              => out.rows = GoLivesIn(following.month, following.year)

\* C19: no query, filter or aggregate changes the records it is given or
\* the processor's stored dataset: across every call the stored records keep
\* their fields, and the frame passed to the call holds after it the records
\* it held before.
C19_NoCallMutatesItsData ==
    [][/\ dash # "none" => df' = df
       /\ "input" \in DOMAIN out' =>
              \A i \in out'.slice : out'.input[i] = df[i]]_vars

DisplayOps == {"get_display_dataframe", "integration_get_display_dataframe"}

\* C20: get_display_dataframe renders the days to go live of each row as
\* 'Rolled Out' exactly when the value is negative and as the decimal
\* integer otherwise (0 as '0'), and the projection has the rows of its
\* input, as many and in the same order.
C20_DisplayDaysAndRows ==
    out.op \in DisplayOps =>
        LET order == InOrder(out.slice) IN
        /\ out.display.error = None
        /\ Len(out.display.rows) = Cardinality(out.slice)
        /\ \A k \in 1..Len(order) :
              LET days == df[order[k]].days
                  shown == out.display.rows[k].days
              IN  /\ shown = "Rolled Out" <=> Lt(days, 0)
                  /\ ~Lt(days, 0) => shown = ToString(days)
                  /\ days = 0 => shown = "0"
                  /\ out.display.rows[k].goLive = FormatDate(df[order[k]].goLive)

\* C21: a record whose go-live date is unparseable has a null go-live date
\* and null days to go live and makes no operation fail:
\* get_display_dataframe completes on every selection that contains such a
\* record, and the other records of the selection are displayed exactly as
\* they are when that record is left out.
C21_UnparseableDateIsLocal ==
    /\ dash # "none" =>
          \A i \in 1..Len(df) : df[i].goLive = NaT => df[i].days = NaNDays
    /\ (out.op \in DisplayOps /\ \E i \in out.slice : df[i].goLive = NaT) =>
          LET others == {i \in out.slice : df[i].goLive # NaT}
              alone == IF out.op = "get_display_dataframe"
                       THEN get_display_dataframe(df, out.sub_tab, others)
                       ELSE integration_get_display_dataframe(df, others)
          IN  /\ out.display.error = None
              /\ alone.error = None
              /\ \E f \in [1..Len(alone.rows) -> 1..Len(out.display.rows)] :
                    /\ \A k \in 1..Len(alone.rows) :
                          out.display.rows[f[k]] = alone.rows[k]
                    /\ \A j, k \in 1..Len(alone.rows) : j < k => f[j] < f[k]

\* the headings under which a table can hold the go-live date
GoLiveDateHeadings == {c_GoLiveDate, "Go-Live Date", "Go Live"}

\* the columns for which _prepare_data has a default
OptionalColumns(domain) ==
    IF domain = "crm"
    THEN {"Dealership Name", "Go Live Status", "Configuration Type"}
    ELSE IF domain = "regression"
    THEN {"SIM Start Date", "Status", "Dealership Name", "Assignee", "Region"}
    ELSE {}

\* C22: in every domain, loading a table without a go-live date column
\* fails with an error that names the field 'Go Live Date' and lists the
\* columns of the table, and the column is never filled with a default; a
\* table that has the go-live date and lacks optional columns is loaded
\* without error, each missing optional column being filled.
C22_MissingRequiredColumnRaises ==
    out.op = "_prepare_data" =>
        /\ src \cap GoLiveDateHeadings = {} =>
              /\ out.error.type = "KeyError"
              /\ out.error.field = c_GoLiveDate
              /\ out.error.listed
              /\ out.error.columns = src
              /\ \A f \in out.filled : f.column # c_GoLiveDate
        /\ (c_GoLiveDate \in src /\ out.domain \in {"crm", "regression"}) =>
              /\ out.error = NoError
              /\ OptionalColumns(out.domain) \subseteq df
              /\ \A f \in out.filled : f.column \in OptionalColumns(out.domain) \ src

\* the fields _prepare_data derives from the go-live date and from today
CRMDerived(rows) ==
    [i \in 1..Len(rows) |->
        [days |-> rows[i].days, configStatus |-> rows[i].configStatus,
         preStatus |-> rows[i].preStatus, testStatus |-> rows[i].testStatus]]

IntegrationDerived(rows) ==
    [i \in 1..Len(rows) |->
        [days |-> rows[i].days, status |-> rows[i].status,
         isDataIncomplete |-> rows[i].isDataIncomplete]]

\* the same raw rows with every go-live date moved by delta days
Shifted(rows, delta) ==
    [i \in 1..Len(rows) |->
        [rows[i] EXCEPT !.goLive = IF @ = NaT THEN NaT ELSE @ + delta]]

Shifts == {-1, 1}

\* C23: classification is a function of the raw row and of today: preparing
\* the same rows again at any time of the same day gives the same days to go
\* live and the same statuses, and moving the go-live dates and today by the
\* same number of days gives them too.
C23_ClassificationDeterministic ==
    /\ dash = "crm" =>
          /\ \A t \in LoadTimes :
                TodayOf(t) = TodayOf(now) =>
                    CRMDerived(CRMPrepare(src, t)) = CRMDerived(df)
          /\ \A delta \in Shifts :
                CRMDerived(CRMPrepare(Shifted(src, delta),
                                      now + delta * TicksPerDay)) = CRMDerived(df)
    /\ dash = "integration" =>
          /\ \A t \in LoadTimes :
                TodayOf(t) = TodayOf(now) =>
                    IntegrationDerived(IntegrationPrepare(src, t))
                        = IntegrationDerived(df)
          /\ \A delta \in Shifts :
                IntegrationDerived(IntegrationPrepare(Shifted(src, delta),
                                                      now + delta * TicksPerDay))
                    = IntegrationDerived(df)

\* rows dated today were prepared after midnight, so that another run the
\* same day starts from another time of day
C23_Witness ==
    /\ dash \in {"crm", "integration"}
    /\ now % TicksPerDay # 0
    /\ \E i \in 1..Len(df) : df[i].goLive = TodayOf(now) /\ df[i].days = 0

PreGoLiveEnum == {"GTG", "Partial", "Fail", "Data Incorrect"}

GoLiveTestingEnum ==
    {"GTG", "Go Live Blocker", "Non-Blocker", "Go Live Blocker & Non-Blocker",
     "Data Incorrect"}

\* C24: in the CRM Pre-Go-Live and Go-Live-Testing dimensions a record has
\* no status only when every input of the dimension is blank and the record
\* is not rolled out; a record with a non-blank input, whatever its value
\* and its go-live date, has a status of the dimension's enum.
C24_NullStatusOnlyWhenBlank ==
    dash = "crm" =>
        \A i \in 1..Len(df) :
            /\ isna(df[i].preStatus) =>
                  PreBlank(df[i]) /\ ~BeforeToday(df[i].goLive)
            /\ ~PreBlank(df[i]) => df[i].preStatus \in PreGoLiveEnum
            /\ isna(df[i].testStatus) =>
                  TestsBlank(df[i]) /\ ~BeforeToday(df[i].goLive)
            /\ ~TestsBlank(df[i]) => df[i].testStatus \in GoLiveTestingEnum

\* C25: in the CRM drill-down, for every date slice, KPI and region card,
\* the table opened by the card has as many rows as the card counts; the
\* table of 'All' has as many rows as the other cards count together when
\* every record has a region.
C25_DrillDownConsistency ==
    out.op = "render_configuration_tab" =>
        /\ Cardinality(out.table) = out.counts[out.region]
        /\ (out.region = t_All /\ \A i \in 1..Len(df) : df[i].region # NAText) =>
              Cardinality(out.table)
                  = SumOver(out.counts, (DOMAIN out.counts) \ {t_All})

\* the implementation types both SLA classifiers know, as ARC spells them
SLATypes ==
    [m \in {"Conquest", "Buy/Sell", "New Point"} |->
        IF m = "Conquest" THEN t_Conquest
        ELSE IF m = "Buy/Sell" THEN t_BuySell
        ELSE t_NewPoint]

\* C26: the two implementations of the SLA tiers agree: for Conquest,
\* Buy/Sell and New Point and every number of days to go live from 0 up,
\* ARC's categorize_status gives the tier that Integration's
\* _calculate_status gives a complete record whose Vendor List Updated is
\* 'No', the boundary values 60, 30, 15 and 3 included.
C26_SLATiersAgree ==
    dash = "integration" =>
        \A i \in 1..Len(df) :
            (/\ ~df[i].isDataIncomplete
             /\ df[i].vendor = "No"
             /\ df[i].implType \in DOMAIN SLATypes
             /\ Le(0, df[i].days)) =>
                df[i].status = categorize_status(df[i].days, SLATypes[df[i].implType])

BlockerStatuses == {"Go Live Blocker", "Go Live Blocker & Non-Blocker"}

\* C27: the Go-Live-Testing classifier and the weighted scorer agree: every
\* record that enters the score distribution is GTG if and only if its
\* score is 100, and has a score of at most 65 (650 tenths) when its status
\* is a blocker status.
C27_ClassifierAndScorerAgree ==
    (out.op = "get_score_distribution" /\ out.dist.error = None) =>
        \A i \in DOMAIN out.dist.scores :
            /\ df[i].testStatus = "GTG" <=> out.dist.scores[i] = FullScore
            /\ df[i].testStatus \in BlockerStatuses => out.dist.scores[i] <= 650

\* the keys under which the dashboards keep the selected KPI and region
KpiKeys ==
    [arc |-> "selected_kpi", crm |-> "crm_selected_kpi",
     integration |-> "integration_selected_kpi",
     regression |-> "regression_selected_kpi"]

RegionKeys ==
    [arc |-> "selected_region", crm |-> "crm_selected_region",
     integration |-> "integration_selected_region",
     regression |-> "regression_selected_region"]

\* C28 (states): in every reachable session state a selected region implies a
\* selected KPI and, in ARC, a selected KPI implies a selected module.
C28_SelectionInvariant ==
    /\ \A d \in DOMAIN KpiKeys : Selected(RegionKeys[d]) => Selected(KpiKeys[d])
    /\ Selected("selected_kpi") => Selected("selected_module")

\* C28 (steps): selecting a different module clears the KPI and the region,
\* and selecting a different KPI clears the region.
C28_SelectionClears ==
    [][/\ ("selected_module" \in DOMAIN session /\ Selected("selected_module")'
            /\ session.selected_module # session'.selected_module) =>
              ~Selected("selected_kpi")' /\ ~Selected("selected_region")'
       /\ \A d \in DOMAIN KpiKeys :
            (KpiKeys[d] \in DOMAIN session /\ Selected(KpiKeys[d])'
                /\ session[KpiKeys[d]] # session'[KpiKeys[d]]) =>
              ~Selected(RegionKeys[d])']_vars

\* C28: the selection invariant and the clearing steps together
C28_DrillDownSelection == []C28_SelectionInvariant /\ C28_SelectionClears

\* every dashboard has been drilled down to a region, ARC after its module
\* was changed
C28_Witness ==
    /\ \A d \in DOMAIN KpiKeys : Selected(KpiKeys[d]) /\ Selected(RegionKeys[d])
    /\ Selected("selected_module")
    /\ session.date_filter = "ytd"
    /\ session.crm_sub_tab = "go_live_testing"

\* C29: after a code is stored for an address, at most one verify_code call
\* succeeds; no call succeeds once three incorrect codes have been entered or
\* once the expiry time has passed; and after a call has consumed the code
\* (by success, expiry or lockout) every call fails until a code is stored again.
C29_SingleUseAndAttemptLimited ==
    /\ \A key \in DOMAIN CallRecord : CallRecord[key].successes <= 1
    /\ (out.op = "verify_code" /\ out.ok) =>
          /\ out.stored
          /\ out.entered_code = out.before.code
          /\ out.before.wrong < MaxAttempts
          /\ ~out.late
          /\ ~out.before.consumed

\* the stored code entered after three incorrect codes, before the expiry
\* time, was refused
C29_Witness ==
    /\ out.op = "verify_code"
    /\ out.stored
    /\ out.entered_code = out.before.code
    /\ out.before.wrong = MaxAttempts
    /\ ~out.before.consumed
    /\ ~out.late
    /\ ~out.ok

\* C30 (states): the stored list holds no super-admin address and no two
\* entries equal ignoring case, and a call that failed left the list as it was.
C30_AdminListInvariant ==
    /\ Lowered(admin_list) \cap Lowered(SUPER_ADMIN_EMAILS) = {}
    /\ \A i, j \in DOMAIN admin_list :
          lower(admin_list[i]) = lower(admin_list[j]) => i = j
    /\ (out.op \in {"add_admin", "remove_admin"} /\ ~out.success) =>
          admin_list = out.previous

\* C30 (steps): remove_admin(e) right after a successful add_admin(e)
\* succeeds and restores the list add_admin found.
C30_AddThenRemoveRestores ==
    [][(out.op = "add_admin" /\ out.success
          /\ out'.op = "remove_admin" /\ out'.email = out.email) =>
            out'.success /\ admin_list' = out.previous]_vars

====
